---- MODULE Spec2Model ----
(***************************************************************************)
(* Patch-to-source line mapping and chunking of the AI code reviewer:      *)
(* FileChunker (src/utils/fileChunker.js), PatchParser                     *)
(* (src/utils/patchParser.js) and the line reconciliation of               *)
(* AIReviewService.reviewFile (src/services/aiReviewService.js); the       *)
(* batches of AIReviewService.reviewPullRequest, ErrorHandler.withRetry    *)
(* and WebhookHandler.postReviewComments.                                  *)
(*                                                                         *)
(* A JavaScript string is a sequence of one-character strings, so that     *)
(* split, join, trim, startsWith and length are computed, not assumed.     *)
(* A nullable number is the empty tuple (null/undefined) or <<n>>.         *)
(***************************************************************************)
EXTENDS Integers, Sequences, FiniteSets, TLC

VARIABLES
    cPc, cContent, cMaxChunkSize, cOverlap, cChunks,
    aComments, aChunk, aTotal, aResult, aPc,
    pPc, pPatch, pParsed, pLine, pMapped, pFileType, pValid,
    rPc, rFile, rChunkSize, rIsPatchContent, rParsed, rOriginalLineCount,
    rChunks, rI, rComments, rFrom, rAiCalls, rAnswer,
    vPc, vLineNumber, vFile, vResult,
    qPc, qFiles, qMaxFileSize, qValid, qBatch, qStatus, qCalls, qInFlight,
    qFileComments, qResults,
    hPc, hRetries, hChecksRetryable, hAttempt, hInvocations, hLastError,
    wPc, wComments, wI, wG, wPostedCount, wGeneralComments, wInline,
    wGeneralTried, wStopped

chunkerVars == <<cPc, cContent, cMaxChunkSize, cOverlap, cChunks>>
adjustVars == <<aComments, aChunk, aTotal, aResult, aPc>>
patchVars == <<pPc, pPatch, pParsed, pLine, pMapped, pFileType, pValid>>
reviewVars ==
    <<rPc, rFile, rChunkSize, rIsPatchContent, rParsed, rOriginalLineCount,
      rChunks, rI, rComments, rFrom, rAiCalls, rAnswer>>
validateVars == <<vPc, vLineNumber, vFile, vResult>>
pullRequestVars ==
    <<qPc, qFiles, qMaxFileSize, qValid, qBatch, qStatus, qCalls, qInFlight,
      qFileComments, qResults>>
retryVars ==
    <<hPc, hRetries, hChecksRetryable, hAttempt, hInvocations, hLastError>>
webhookVars ==
    <<wPc, wComments, wI, wG, wPostedCount, wGeneralComments, wInline,
      wGeneralTried, wStopped>>
vars ==
    <<chunkerVars, adjustVars, patchVars, reviewVars, validateVars,
      pullRequestVars, retryVars, webhookVars>>

(***************************************************************************)
(* JavaScript values                                                       *)
(***************************************************************************)
Null == <<>>
Some(n) == <<n>>
Val(x) == x[1]
\* JS truthiness of a number-or-null: null, undefined and 0 are falsy.
Truthy(x) == x # Null /\ Val(x) # 0

\* Math.max and Math.min of two numbers.
Max2(a, b) == CHOOSE m \in {a, b} : m >= a /\ m >= b
Min2(a, b) == CHOOSE m \in {a, b} : m <= a /\ m <= b

\* body(v) with v computed once: a loop's locals are values when the next
\* iteration reads them.
Let(v, body(_)) == CHOOSE r \in {body(x) : x \in {v}} : TRUE

NL == "\n"

\* String.prototype.split('\n'): always at least one element.
RECURSIVE SplitFrom(_, _, _)
SplitFrom(s, i, cur) ==
    IF i > Len(s) THEN <<cur>>
    ELSE IF s[i] = NL THEN <<cur>> \o SplitFrom(s, i + 1, <<>>)
    ELSE SplitFrom(s, i + 1, Append(cur, s[i]))

SplitLines(s) == SplitFrom(s, 1, <<>>)

\* Array.prototype.join('\n'); the join of no element is the empty string.
RECURSIVE JoinLines(_)
JoinLines(ls) ==
    IF ls = <<>> THEN <<>>
    ELSE IF Len(ls) = 1 THEN ls[1]
    ELSE ls[1] \o <<NL>> \o JoinLines(Tail(ls))

(***************************************************************************)
(* FileChunker                                                             *)
(***************************************************************************)
DefaultChunkSize == 50000
DefaultOverlap == 1000
OverlapWindow == 10

\* options.maxChunkSize || this.config.processing?.chunkSize || 50000
EffectiveMaxChunkSize(optMax, cfgChunkSize) ==
    IF Truthy(optMax) THEN Val(optMax)
    ELSE IF Truthy(cfgChunkSize) THEN Val(cfgChunkSize)
    ELSE DefaultChunkSize

\* options.overlap || 1000
EffectiveOverlap(optOverlap) ==
    IF Truthy(optOverlap) THEN Val(optOverlap) ELSE DefaultOverlap

\* The loop of getOverlapLines from index i (0-based) to endIndex; it stops
\* at the first line that does not fit.
RECURSIVE OverlapLoop(_, _, _, _, _, _)
OverlapLoop(lines, i, endIndex, maxOverlap, overlapLines, overlapSize) ==
    IF i > endIndex THEN overlapLines
    ELSE IF i >= 0 /\ i < Len(lines)
         THEN IF overlapSize + Len(lines[i + 1]) + 1 <= maxOverlap
              THEN OverlapLoop(lines, i + 1, endIndex, maxOverlap,
                               Append(overlapLines, lines[i + 1]),
                               overlapSize + Len(lines[i + 1]) + 1)
              ELSE overlapLines
         ELSE OverlapLoop(lines, i + 1, endIndex, maxOverlap,
                          overlapLines, overlapSize)

\* Mutant: the overlap takes the whole window, whatever its size.
getOverlapLines_NoLimit(lines, endIndex, maxOverlap) ==
    OverlapLoop(lines, Max2(0, endIndex - OverlapWindow), endIndex,
                maxOverlap + Len(JoinLines(lines)) + Len(lines), <<>>, 0)

getOverlapLines(lines, endIndex, maxOverlap) ==
    OverlapLoop(lines, Max2(0, endIndex - OverlapWindow), endIndex,
                maxOverlap, <<>>, 0)

\* The chunk record with endLine one past the line count reached.
mkChunk_EndLinePastSplit(content, startLine, endLine, chunkIndex, totalChunks) ==
    [content |-> content, startLine |-> startLine, endLine |-> endLine + 1,
     chunkIndex |-> chunkIndex, totalChunks |-> totalChunks]

mkChunk(content, startLine, endLine, chunkIndex, totalChunks) ==
    [content |-> content, startLine |-> startLine, endLine |-> endLine,
     chunkIndex |-> chunkIndex, totalChunks |-> totalChunks]

\* One iteration of the for loop of chunkFile, i 0-based; st holds the
\* loop's locals.
RECURSIVE ChunkLoop(_, _, _, _, _)
ChunkLoop(lines, i, st, maxChunkSize, overlap) ==
    IF i >= Len(lines) THEN st
    ELSE
      LET line == lines[i + 1]
          potentialChunk ==
              st.currentChunk
                \o (IF st.currentChunk # <<>> THEN <<NL>> ELSE <<>>) \o line
      IN  IF Len(potentialChunk) > maxChunkSize /\ Len(st.currentChunk) > 0
          THEN LET overlapLines == getOverlapLines(lines, i - 1, overlap)
               IN  Let([chunks |-> Append(st.chunks,
                                    mkChunk(st.currentChunk, st.currentStartLine,
                                            i, st.chunkIndex, Null)),
                        currentChunk |-> JoinLines(overlapLines),
                        currentStartLine |-> Max2(1, i - Len(overlapLines) + 1),
                        chunkIndex |-> st.chunkIndex + 1],
                       LAMBDA next :
                         ChunkLoop(lines, i + 1, next, maxChunkSize, overlap))
          ELSE Let([st EXCEPT !.currentChunk = potentialChunk],
                   LAMBDA next :
                     ChunkLoop(lines, i + 1, next, maxChunkSize, overlap))

\* Mutant: the totals are never filled in.
setTotalChunks_Skipped(chunks) == chunks

\* chunks.forEach(chunk => { chunk.totalChunks = totalChunks })
setTotalChunks(chunks) ==
    [p \in 1..Len(chunks) |->
        [chunks[p] EXCEPT !.totalChunks = Some(Len(chunks))]]

\* The part of chunkFile after the for loop: the final chunk, then the
\* totals; st holds the loop's locals at its end.
finishChunks(lines, st) ==
    Let(IF st.currentChunk # <<>>
        THEN Append(st.chunks,
                    mkChunk(st.currentChunk, st.currentStartLine,
                            Len(lines), st.chunkIndex, Null))
        ELSE st.chunks,
        setTotalChunks)

\* The part of chunkFile for content longer than maxChunkSize.
chunkLines(lines, maxChunkSize, overlap) ==
    Let(ChunkLoop(lines, 0,
                  [chunks |-> <<>>, currentChunk |-> <<>>,
                   currentStartLine |-> 1, chunkIndex |-> 0],
                  maxChunkSize, overlap),
        LAMBDA st : finishChunks(lines, st))

\* Mutant: content exactly maxChunkSize long is sent through the loop.
chunkFileWith_StrictlyBelow(content, maxChunkSize, overlap) ==
    IF Len(content) < maxChunkSize
    THEN << mkChunk(content, 1, Len(SplitLines(content)), 0, Some(1)) >>
    ELSE Let(SplitLines(content),
             LAMBDA lines : chunkLines(lines, maxChunkSize, overlap))

\* chunkFile with the effective maxChunkSize and overlap.
chunkFileWith(content, maxChunkSize, overlap) ==
    IF Len(content) <= maxChunkSize
    THEN << mkChunk(content, 1, Len(SplitLines(content)), 0, Some(1)) >>
    ELSE Let(SplitLines(content),
             LAMBDA lines : chunkLines(lines, maxChunkSize, overlap))

chunkFile(content, optMax, optOverlap, cfgChunkSize) ==
    Let(content,
        LAMBDA text :
          chunkFileWith(text, EffectiveMaxChunkSize(optMax, cfgChunkSize),
                        EffectiveOverlap(optOverlap)))

\* comment.f for a field the object may lack (undefined).
Field(c, f) == IF f \in DOMAIN c THEN c[f] ELSE Null

\* { ...comment, line_number: v }
WithField(c, f, v) ==
    [x \in (DOMAIN c) \cup {f} |-> IF x = f THEN v ELSE c[x]]

adjustComment(comment, chunk, originalContentLines) ==
    IF ~Truthy(Field(comment, "line_number")) THEN comment
    ELSE WithField(comment, "line_number",
           Some(Max2(1, Min2(chunk.startLine + Val(comment.line_number) - 1,
                             originalContentLines))))

adjustCommentLineNumbers(comments, chunk, originalContentLines) ==
    [k \in 1..Len(comments) |->
        adjustComment(comments[k], chunk, originalContentLines)]

(***************************************************************************)
(* PatchParser                                                             *)
(***************************************************************************)
Str1(c) == <<c>>
WhiteSpace == {" ", NL, "\t", "\r"}

\* String.prototype.trim()
RECURSIVE TrimStart(_)
TrimStart(s) ==
    IF s # <<>> /\ s[1] \in WhiteSpace THEN TrimStart(Tail(s)) ELSE s

RECURSIVE TrimEnd(_)
TrimEnd(s) ==
    IF s # <<>> /\ s[Len(s)] \in WhiteSpace
    THEN TrimEnd(SubSeq(s, 1, Len(s) - 1)) ELSE s

Trim(s) == TrimEnd(TrimStart(s))

\* String.prototype.startsWith(p), and p found at position i of s.
HasAt(s, i, p) ==
    /\ i + Len(p) - 1 <= Len(s)
    /\ \A j \in 1..Len(p) : s[i + j - 1] = p[j]

StartsWith(s, p) == HasAt(s, 1, p)

DigitChars == <<"0", "1", "2", "3", "4", "5", "6", "7", "8", "9">>
IsDigit(c) == \E d \in 1..Len(DigitChars) : DigitChars[d] = c
DigitVal(c) == (CHOOSE d \in 1..Len(DigitChars) : DigitChars[d] = c) - 1

\* The position after the run of digits of s that starts at i (\d*).
RECURSIVE AfterDigits(_, _)
AfterDigits(s, i) ==
    IF i <= Len(s) /\ IsDigit(s[i]) THEN AfterDigits(s, i + 1) ELSE i

\* parseInt(digits, 10) of a non-empty string of digits.
RECURSIVE parseInt(_)
parseInt(ds) ==
    IF Len(ds) = 1 THEN DigitVal(ds[1])
    ELSE 10 * parseInt(SubSeq(ds, 1, Len(ds) - 1)) + DigitVal(ds[Len(ds)])

AfterComma(s, i) == IF i <= Len(s) /\ s[i] = "," THEN i + 1 ELSE i

\* line.match(/^@@ -(\d+),?(\d*) \+(\d+),?(\d*) @@/): the four captured
\* groups, or Null when the line does not match.
hunkHeaderPattern(line) ==
    LET p1 == Len(<<"@", "@", " ", "-">>) + 1
        p2 == AfterDigits(line, p1)
        p3 == AfterComma(line, p2)
        p4 == AfterDigits(line, p3)
        p5 == p4 + Len(<<" ", "+">>)
        p6 == AfterDigits(line, p5)
        p7 == AfterComma(line, p6)
        p8 == AfterDigits(line, p7)
    IN  IF /\ StartsWith(line, <<"@", "@", " ", "-">>)
           /\ p2 > p1
           /\ HasAt(line, p4, <<" ", "+">>)
           /\ p6 > p5
           /\ HasAt(line, p8, <<" ", "@", "@">>)
        THEN Some([oldStart |-> SubSeq(line, p1, p2 - 1),
                   oldCount |-> SubSeq(line, p3, p4 - 1),
                   newStart |-> SubSeq(line, p5, p6 - 1),
                   newCount |-> SubSeq(line, p7, p8 - 1)])
        ELSE Null

getLineType(line) ==
    IF StartsWith(line, <<"+">>) THEN "added"
    ELSE IF StartsWith(line, <<"-">>) THEN "removed"
    ELSE IF StartsWith(line, <<" ">>) THEN "context"
    ELSE "other"

\* line.replace(/^[+\- ]/, '')
cleanLineContent(line) ==
    IF line # <<>> /\ line[1] \in {"+", "-", " "} THEN Tail(line) ELSE line

\* Math.min(...xs, d) and Math.max(...xs, d) over a sequence of numbers.
MinOf(xs, d) ==
    LET S == {xs[k] : k \in 1..Len(xs)} \cup {d}
    IN  CHOOSE m \in S : \A x \in S : m <= x
MaxOf(xs, d) ==
    LET S == {xs[k] : k \in 1..Len(xs)} \cup {d}
    IN  CHOOSE m \in S : \A x \in S : m >= x

\* Array.prototype.filter of the lines of one type, as a count.
CountType(lines, type) ==
    Cardinality({k \in 1..Len(lines) : lines[k].type = type})

\* The truthy values of one line-number field, in entry order.
RECURSIVE TruthyNumbers(_, _)
TruthyNumbers(lines, f) ==
    IF lines = <<>> THEN <<>>
    ELSE (IF Truthy(lines[1][f]) THEN <<Val(lines[1][f])>> ELSE <<>>)
           \o TruthyNumbers(Tail(lines), f)

finalizeHunk(hunk, index) ==
    LET originalLines == TruthyNumbers(hunk.lines, "originalLineNumber")
        modifiedLines == TruthyNumbers(hunk.lines, "modifiedLineNumber")
    IN  [oldStartLine |-> hunk.oldStartLine,
         oldLineCount |-> hunk.oldLineCount,
         newStartLine |-> hunk.newStartLine,
         newLineCount |-> hunk.newLineCount,
         lines |-> hunk.lines,
         content |-> hunk.content,
         index |-> index,
         contextLines |-> CountType(hunk.lines, "context"),
         addedLines |-> CountType(hunk.lines, "added"),
         removedLines |-> CountType(hunk.lines, "removed"),
         originalRange |->
             [start |-> MinOf(originalLines, hunk.oldStartLine),
              end |-> MaxOf(originalLines,
                            hunk.oldStartLine + hunk.oldLineCount - 1)],
         modifiedRange |->
             [start |-> MinOf(modifiedLines, hunk.newStartLine),
              end |-> MaxOf(modifiedLines,
                            hunk.newStartLine + hunk.newLineCount - 1)],
         hasChanges |-> (CountType(hunk.lines, "added") > 0
                           \/ CountType(hunk.lines, "removed") > 0)]

\* The lines the loop of parsePatch skips as metadata.
IsMetadataLine(line) ==
    \/ StartsWith(line, <<"-", "-", "-">>)
    \/ StartsWith(line, <<"+", "+", "+">>)
    \/ StartsWith(line, <<"I", "n", "d", "e", "x", ":">>)
    \/ StartsWith(line, <<"d", "i", "f", "f", " ", "-", "-", "g", "i", "t">>)

\* Mutant: a removed line is numbered on the modified track as well.
processedLine_RemovedOnBothTracks(line, originalLineNum, modifiedLineNum) ==
    LET lineType == getLineType(line)
    IN  [originalLineNumber |->
             IF lineType \in {"context", "removed"}
             THEN Some(originalLineNum) ELSE Null,
         modifiedLineNumber |->
             IF lineType \in {"context", "added", "removed"}
             THEN Some(modifiedLineNum) ELSE Null,
         content |-> cleanLineContent(line),
         type |-> lineType,
         rawLine |-> line]

\* The entry parsePatch makes of a content line, with the running counters.
processedLine(line, originalLineNum, modifiedLineNum) ==
    LET lineType == getLineType(line)
    IN  [originalLineNumber |->
             IF lineType \in {"context", "removed"}
             THEN Some(originalLineNum) ELSE Null,
         modifiedLineNumber |->
             IF lineType \in {"context", "added"}
             THEN Some(modifiedLineNum) ELSE Null,
         content |-> cleanLineContent(line),
         type |-> lineType,
         rawLine |-> line]

\* The for loop of parsePatch over lines[i..]; st holds the loop's locals,
\* currentHunk being Null or <<hunk>>.
RECURSIVE ParseLoop(_, _, _)
ParseLoop(lines, i, st) ==
    IF i > Len(lines) THEN st
    ELSE
      LET line == lines[i]
          headerMatch == hunkHeaderPattern(line)
      IN  IF headerMatch # Null
          THEN LET m == Val(headerMatch)
               IN  Let(
                     [hunks |-> IF st.currentHunk # Null
                                THEN Append(st.hunks,
                                       finalizeHunk(Val(st.currentHunk),
                                                    st.hunkIndex))
                                ELSE st.hunks,
                      hunkIndex |-> IF st.currentHunk # Null
                                    THEN st.hunkIndex + 1 ELSE st.hunkIndex,
                      currentHunk |->
                        Some([oldStartLine |-> parseInt(m.oldStart),
                              oldLineCount |->
                                parseInt(IF m.oldCount # <<>>
                                         THEN m.oldCount ELSE <<"1">>),
                              newStartLine |-> parseInt(m.newStart),
                              newLineCount |->
                                parseInt(IF m.newCount # <<>>
                                         THEN m.newCount ELSE <<"1">>),
                              lines |-> <<>>,
                              content |-> <<>>]),
                      originalLineNum |-> parseInt(m.oldStart),
                      modifiedLineNum |-> parseInt(m.newStart)],
                     LAMBDA next : ParseLoop(lines, i + 1, next))
          ELSE IF IsMetadataLine(line) THEN ParseLoop(lines, i + 1, st)
          ELSE IF st.currentHunk # Null /\ Len(Trim(line)) > 0
          THEN LET entry == processedLine(line, st.originalLineNum,
                                          st.modifiedLineNum)
                   hunk == Val(st.currentHunk)
               IN  Let(
                     [st EXCEPT
                        !.currentHunk =
                            Some([hunk EXCEPT
                                    !.lines = Append(@, entry),
                                    !.content = Append(@, entry.content)]),
                        !.originalLineNum =
                            IF entry.originalLineNumber # Null
                            THEN @ + 1 ELSE @,
                        !.modifiedLineNum =
                            IF entry.modifiedLineNumber # Null
                            THEN @ + 1 ELSE @],
                     LAMBDA next : ParseLoop(lines, i + 1, next))
          ELSE ParseLoop(lines, i + 1, st)

\* The JavaScript value of `patchContent && patchContent.trim().length > 0`
\* for a string: the empty string itself when patchContent is empty.
JsEmptyString == "''"
JsTrue == "true"
JsFalse == "false"
hasContentOf(patchContent) ==
    IF patchContent = <<>> THEN JsEmptyString
    ELSE IF Len(Trim(patchContent)) > 0 THEN JsTrue ELSE JsFalse

RECURSIVE HunkEnds(_, _)
HunkEnds(hunks, track) ==
    IF hunks = <<>> THEN <<>>
    ELSE <<(IF track = "original"
            THEN hunks[1].oldStartLine + hunks[1].oldLineCount - 1
            ELSE hunks[1].newStartLine + hunks[1].newLineCount - 1)>>
           \o HunkEnds(Tail(hunks), track)

\* The part of parsePatch after the for loop: the last hunk, then the
\* totals; st holds the loop's locals at its end.
parsedResult(lines, st) ==
    Let(IF st.currentHunk # Null
        THEN Append(st.hunks,
                    finalizeHunk(Val(st.currentHunk), st.hunkIndex))
        ELSE st.hunks,
        LAMBDA hunks :
          [hunks |-> hunks,
           totalLines |-> Len(lines),
           originalLineCount |-> MaxOf(HunkEnds(hunks, "original"), 0),
           modifiedLineCount |-> MaxOf(HunkEnds(hunks, "modified"), 0),
           hasContent |-> JsTrue])

\* The part of parsePatch for a patch that has content.
parseLines(lines) ==
    Let(ParseLoop(lines, 1,
                  [hunks |-> <<>>, hunkIndex |-> 0, currentHunk |-> Null,
                   originalLineNum |-> 1, modifiedLineNum |-> 1]),
        LAMBDA st : parsedResult(lines, st))

parsePatch(patchContent) ==
    IF hasContentOf(patchContent) # JsTrue
    THEN [hunks |-> <<>>, totalLines |-> 0, originalLineCount |-> 0,
          modifiedLineCount |-> 0, hasContent |-> hasContentOf(patchContent)]
    ELSE Let(SplitLines(patchContent), parseLines)

\* ToNumber of a number-or-null in a comparison: null compares as 0.
NumOf(x) == IF x = Null THEN 0 ELSE Val(x)

\* The for loop over the hunks of mapPatchLineToOriginalFile /
\* mapPatchLineToModifiedFile; f is the line-number field looked up.
RECURSIVE MapLoop(_, _, _)
MapLoop(aiLineNumber, hunks, f) ==
    IF hunks = <<>> THEN Null
    ELSE LET hunk == hunks[1]
             lineInHunk == NumOf(aiLineNumber)
         IN  IF /\ lineInHunk <= Len(hunk.content)
                /\ lineInHunk > 0
                /\ lineInHunk <= Len(hunk.lines)
                /\ Truthy(hunk.lines[lineInHunk][f])
             THEN hunk.lines[lineInHunk][f]
             ELSE MapLoop(aiLineNumber, Tail(hunks), f)

mapPatchLineToOriginalFile(aiLineNumber, parsedPatch) ==
    IF Len(parsedPatch.hunks) = 0 THEN Null
    ELSE MapLoop(aiLineNumber, parsedPatch.hunks, "originalLineNumber")

mapPatchLineToModifiedFile(aiLineNumber, parsedPatch) ==
    IF Len(parsedPatch.hunks) = 0 THEN Null
    ELSE MapLoop(aiLineNumber, parsedPatch.hunks, "modifiedLineNumber")

\* The text extractReviewContent emits for one entry, Null for none.
reviewLineOf(entry) ==
    CASE entry.type = "added" -> Some(<<"+">> \o entry.content)
      [] entry.type = "removed" -> Some(<<"-">> \o entry.content)
      [] entry.type = "context" -> Some(<<" ">> \o entry.content)
      [] OTHER -> Null

\* The inner loop of extractReviewContent over the entries of one hunk.
RECURSIVE ExtractEntries(_, _, _, _)
ExtractEntries(entries, out, includeContext, maxLines) ==
    IF entries = <<>> \/ Len(out) >= maxLines THEN out
    ELSE LET e == entries[1]
             emitted == IF ~includeContext /\ e.type = "context"
                        THEN Null ELSE reviewLineOf(e)
         IN  Let(IF emitted # Null THEN Append(out, Val(emitted)) ELSE out,
                 LAMBDA next :
                   ExtractEntries(Tail(entries), next, includeContext,
                                  maxLines))

RECURSIVE ExtractHunks(_, _, _, _)
ExtractHunks(hunks, out, includeContext, maxLines) ==
    IF hunks = <<>> THEN out
    ELSE Let(ExtractEntries(hunks[1].lines, out, includeContext, maxLines),
             LAMBDA next :
               IF Len(next) >= maxLines THEN next
               ELSE ExtractHunks(Tail(hunks), next, includeContext, maxLines))

extractReviewLines(parsedPatch, includeContext, maxLines) ==
    IF Len(parsedPatch.hunks) = 0 THEN <<>>
    ELSE ExtractHunks(parsedPatch.hunks, <<>>, includeContext, maxLines)

extractReviewContent(parsedPatch, includeContext, maxLines) ==
    JoinLines(extractReviewLines(parsedPatch, includeContext, maxLines))

\* Mutant: the last line of the file is taken to be out of range.
isValidLineNumber_StrictlyBelow(lineNumber, parsedPatch, fileType) ==
    IF Len(parsedPatch.hunks) = 0 \/ ~Truthy(lineNumber) \/ Val(lineNumber) <= 0
    THEN FALSE
    ELSE IF fileType = "original"
         THEN Val(lineNumber) < parsedPatch.originalLineCount
         ELSE Val(lineNumber) < parsedPatch.modifiedLineCount

isValidLineNumber(lineNumber, parsedPatch, fileType) ==
    IF Len(parsedPatch.hunks) = 0 \/ ~Truthy(lineNumber) \/ Val(lineNumber) <= 0
    THEN FALSE
    ELSE IF fileType = "original"
         THEN Val(lineNumber) <= parsedPatch.originalLineCount
         ELSE Val(lineNumber) <= parsedPatch.modifiedLineCount

(***************************************************************************)
(* AIReviewService                                                         *)
(***************************************************************************)
ReviewOverlap == 1000
ExtractMaxLines == 1000
DefaultFileSize == 1000
MinEstimatedLines == 50

\* Mutant: a line number equal to twice the estimate is rejected.
validateCommentLineNumber_BoundExcluded(lineNumber, file) ==
    IF ~Truthy(lineNumber) \/ Val(lineNumber) <= 0 THEN Null
    ELSE LET estimatedLineCount ==
                 Max2(IF Truthy(file.size) THEN Val(file.size)
                      ELSE DefaultFileSize, MinEstimatedLines)
         IN  IF Val(lineNumber) >= estimatedLineCount * 2 THEN Null
             ELSE lineNumber

validateCommentLineNumber(lineNumber, file) ==
    IF ~Truthy(lineNumber) \/ Val(lineNumber) <= 0 THEN Null
    ELSE LET estimatedLineCount ==
                 Max2(IF Truthy(file.size) THEN Val(file.size)
                      ELSE DefaultFileSize, MinEstimatedLines)
         IN  IF Val(lineNumber) > estimatedLineCount * 2 THEN Null
             ELSE lineNumber

\* Mutant: the line number is not compared with the lines of the chunk.
keepsAiComment_NoLineCount(comment, code) ==
    /\ Truthy(Field(comment, "line_number"))
    /\ Val(comment.line_number) > 0

\* The first filter of reviewCodeChunk: a positive line number within the
\* lines of the chunk text.
keepsAiComment(comment, code) ==
    /\ Truthy(Field(comment, "line_number"))
    /\ Val(comment.line_number) > 0
    /\ Val(comment.line_number) <= Len(SplitLines(code))

\* What reviewCodeChunk makes of the comments the AI capability returned:
\* filter, map to the review-comment format (which has a line and no
\* line_number), filter out the null lines. The body, commit id and type
\* are carried through untouched and left out here.
RECURSIVE reviewCodeChunk(_, _, _)
reviewCodeChunk(comments, code, file) ==
    IF comments = <<>> THEN <<>>
    ELSE LET comment == comments[1]
             validatedLine ==
                 validateCommentLineNumber(Field(comment, "line_number"), file)
             rest == reviewCodeChunk(Tail(comments), code, file)
         IN  IF keepsAiComment(comment, code) /\ validatedLine # Null
             THEN <<[path |-> file.filename,
                     line |-> Val(validatedLine),
                     severity |-> comment.severity,
                     originalLineNumber |-> Val(comment.line_number)]>>
                    \o rest
             ELSE rest

\* The map over adjustedComments on the patch path of reviewFile.
mapComment(comment, parsedPatch) ==
    IF Truthy(Field(comment, "line_number"))
    THEN LET originalLineNumber ==
                 mapPatchLineToOriginalFile(comment.line_number, parsedPatch)
         IN  IF Truthy(originalLineNumber)
             THEN WithField(comment, "line_number", originalLineNumber)
             ELSE comment
    ELSE comment

mapComments(comments, parsedPatch) ==
    [k \in 1..Len(comments) |-> mapComment(comments[k], parsedPatch)]

\* Mutant: the status of the file is not looked at.
resolveContent_IgnoresStatus(file) ==
    IF Trim(file.patch) # <<>> THEN <<file.patch, TRUE>>
    ELSE <<file.content, FALSE>>

\* The content reviewFile settles on: <<content, isPatchContent>>. An
\* absent patch or content is the empty string.
resolveContent(file) ==
    IF file.status # "removed"
    THEN IF Trim(file.patch) # <<>> THEN <<file.patch, TRUE>>
         ELSE <<file.content, FALSE>>
    ELSE <<<<>>, FALSE>>

(***************************************************************************)
(* FileChunker.chunkFile as a pure function: the inputs are every string   *)
(* over Alphabet up to MaxContentLen characters, with the options          *)
(* maxChunkSize and overlap (0 stands for an option left out).             *)
(***************************************************************************)
MaxContentLen == 6
MaxChunkOpt == 3
MaxOverlapOpt == 4
Alphabet == {"a", "b", NL}

Strings(alphabet, n) == UNION {[1..k -> alphabet] : k \in 0..n}

\* chunker.chunkFile(content, {maxChunkSize, overlap}) with no configured
\* processing.chunkSize.
ChunkFile ==
    /\ cPc = "input"
    /\ cChunks' = chunkFile(cContent, Some(cMaxChunkSize), Some(cOverlap), Null)
    /\ cPc' = "chunked"
    /\ UNCHANGED <<cContent, cMaxChunkSize, cOverlap>>

cEffMax == EffectiveMaxChunkSize(Some(cMaxChunkSize), Null)
cEffOverlap == EffectiveOverlap(Some(cOverlap))
cLines == SplitLines(cContent)

LongestLine(ls) == MaxOf([k \in 1..Len(ls) |-> Len(ls[k])], 0)

(***************************************************************************)
(* FileChunker.adjustCommentLineNumbers as a pure function.                *)
(***************************************************************************)
MaxLineNo == 3
MaxStartLine == 3
MaxTotal == 4
MaxComments == 2

AILineNumbers == {Null} \cup {Some(n) : n \in -1..MaxLineNo}
\* A comment of the AI capability; line_number may be missing altogether.
AIComments ==
    [line_number : AILineNumbers, severity : {"warning", "error"}]
      \cup [severity : {"warning", "error"}]

AdjustCommentLineNumbers ==
    /\ aPc = "input"
    /\ aResult' = adjustCommentLineNumbers(aComments, aChunk, aTotal)
    /\ aPc' = "adjusted"
    /\ UNCHANGED <<aComments, aChunk, aTotal>>

(***************************************************************************)
(* PatchParser.parsePatch and mapPatchLineToOriginalFile as pure           *)
(* functions: the patch is up to MaxPatchLines lines of PatchLines joined  *)
(* by newlines, the AI line null or a number in -1..MaxAiLine.             *)
(***************************************************************************)
MaxPatchLines == 4
MaxAiLine == 4

\* The decimal digits of a natural number.
RECURSIVE FormatNat(_)
FormatNat(n) ==
    IF n < 10 THEN <<DigitChars[n + 1]>>
    ELSE FormatNat(n \div 10) \o <<DigitChars[(n % 10) + 1]>>

\* '@@ -oldStart,oldCount +newStart,newCount @@'
HeaderText(oldStart, oldCount, newStart, newCount) ==
    <<"@", "@", " ", "-">> \o FormatNat(oldStart) \o <<",">>
      \o FormatNat(oldCount) \o <<" ", "+">> \o FormatNat(newStart)
      \o <<",">> \o FormatNat(newCount) \o <<" ", "@", "@">>

\* '@@ -oldStart +newStart @@', the counts left out.
ShortHeaderText(oldStart, newStart) ==
    <<"@", "@", " ", "-">> \o FormatNat(oldStart) \o <<" ", "+">>
      \o FormatNat(newStart) \o <<" ", "@", "@">>

HeaderLines ==
    {HeaderText(5, 3, 5, 3), HeaderText(0, 0, 1, 2), ShortHeaderText(12, 2)}

\* Removed, added and context lines, a removed line whose content is '--',
\* an empty context line, a blank line and a no-newline marker.
BodyLines ==
    {<<"-", "a">>, <<"+", "b">>, <<" ", "c">>, <<"-", "-", "-">>,
     <<" ">>, <<>>, <<"\\">>}

PatchLines == HeaderLines \cup BodyLines

PatchTexts ==
    {JoinLines(ls) : ls \in UNION {[1..k -> PatchLines] : k \in 0..MaxPatchLines}}

AiLines == {Null} \cup {Some(k) : k \in -1..MaxAiLine}

\* parser.parsePatch(patch)
ParsePatch ==
    /\ pPc = "input"
    /\ pParsed' = Some(parsePatch(pPatch))
    /\ pPc' = "parsed"
    /\ UNCHANGED <<pPatch, pLine, pMapped, pFileType, pValid>>

\* parser.mapPatchLineToOriginalFile(aiLineNumber, parsedPatch)
MapPatchLine ==
    /\ pPc = "parsed"
    /\ \E k \in AiLines :
          /\ pLine' = k
          /\ pMapped' = mapPatchLineToOriginalFile(k, Val(pParsed))
    /\ pPc' = "mapped"
    /\ UNCHANGED <<pPatch, pParsed, pFileType, pValid>>

\* parser.isValidLineNumber(lineNumber, parsedPatch, fileType), the line being
\* any of AiLines or one of the two line counts of the parsed patch.
IsValidLineNumber ==
    /\ pPc = "parsed"
    /\ \E fileType \in {"original", "modified"} :
       \E k \in AiLines \cup {Some(IF fileType = "original"
                                    THEN Val(pParsed).originalLineCount
                                    ELSE Val(pParsed).modifiedLineCount)} :
          /\ pLine' = k
          /\ pFileType' = fileType
          /\ pValid' = isValidLineNumber(k, Val(pParsed), fileType)
    /\ pPc' = "validated"
    /\ UNCHANGED <<pPatch, pParsed, pMapped>>

(***************************************************************************)
(* AIReviewService.reviewFile: one file of a pull request, with the        *)
(* configured processing.chunkSize. The AI capability answers each call    *)
(* with any of AiResponses, or throws.                                     *)
(***************************************************************************)
MaxReviewPatchLines == 4
MaxFileLines == 13
MaxReviewAiLine == 3
SmallChunkSize == 4
MediumChunkSize == 23
LargeChunkSize == 1000

ReviewPatchLines ==
    {HeaderText(5, 3, 5, 3), HeaderText(0, 0, 1, 2),
     <<"-", "a">>, <<"+", "b">>, <<" ", "c">>, <<"x">>}

ReviewPatches ==
    {JoinLines(ls) :
        ls \in UNION {[1..k -> ReviewPatchLines] : k \in 1..MaxReviewPatchLines}}

\* n lines, each being line: line.repeat(n) without the last newline.
Repeat(line, n) == JoinLines([k \in 1..n |-> line])

FullContents == {Repeat(<<"a">>, n) : n \in 1..MaxFileLines}

mkFile(status, patch, content, size) ==
    [filename |-> "f.js", status |-> status, patch |-> patch,
     content |-> content, size |-> size]

\* Files with a patch, files with full content only (the patch absent, empty
\* or blank), files with neither, and removed files; each with the chunk
\* sizes that split its text in at most a few chunks.
ReviewInputs ==
    {<<mkFile("modified", pt, <<>>, Some(150)), cs>> :
        pt \in ReviewPatches, cs \in {SmallChunkSize, LargeChunkSize}}
    \cup
    {<<mkFile("modified", pt, ct, Null), cs>> :
        pt \in {<<>>, <<" ">>}, ct \in FullContents \cup {<<>>, <<" ", NL>>},
        cs \in {MediumChunkSize, LargeChunkSize}}
    \cup
    {<<mkFile(st, HeaderText(5, 3, 5, 3) \o <<NL, "-", "a">>, ct, Null),
       LargeChunkSize>> :
        st \in {"modified", "removed"}, ct \in {<<>>, <<"a">>}}

ReviewAiLines == {Null} \cup {Some(n) : n \in 0..MaxReviewAiLine}
AiComment(ln, sev) == [line_number |-> ln, severity |-> sev]
\* No comment, one comment, or one comment followed by a second one on line 1.
AiResponses ==
    {<<>>}
    \cup {<<AiComment(ln, "warning")>> : ln \in ReviewAiLines}
    \cup {<<AiComment(ln, "warning"), AiComment(Some(1), "error")>> :
             ln \in ReviewAiLines}

\* chunker.chunkFile(text, {maxChunkSize: config.processing.chunkSize,
\* overlap: 1000}) with the service's configuration.
reviewChunks(text) ==
    chunkFile(text, Some(rChunkSize), Some(ReviewOverlap), Some(rChunkSize))

\* reviewFile has its chunks: it returns when there is none, else it calls
\* the AI capability for the first one.
EnterChunkLoop(chunks) ==
    /\ rChunks' = chunks
    /\ IF Len(chunks) = 0
       THEN rPc' = "done" /\ rI' = 0 /\ rAiCalls' = rAiCalls
       ELSE rPc' = "awaiting" /\ rI' = 1 /\ rAiCalls' = Append(rAiCalls, 1)

\* reviewFile up to its first await: the file is skipped.
ReviewFileSkip ==
    /\ rPc = "start"
    /\ \E content \in {resolveContent(rFile)[1]},
          isPatchContent \in {resolveContent(rFile)[2]},
          parsedPatch \in {parsePatch(resolveContent(rFile)[1])} :
           /\ \/ Trim(content) = <<>>
              \/ /\ isPatchContent
                 /\ (parsedPatch.hasContent # JsTrue
                       \/ Len(parsedPatch.hunks) = 0)
           /\ rIsPatchContent' = isPatchContent
           /\ rParsed' = IF Trim(content) # <<>> /\ isPatchContent
                         THEN Some(parsedPatch) ELSE Null
    /\ rPc' = "done"
    /\ UNCHANGED <<rFile, rChunkSize, rOriginalLineCount, rChunks, rI,
                   rComments, rFrom, rAiCalls, rAnswer>>

\* Mutant: the patch path goes on when the parsed patch has no hunk.
ReviewFilePatch_NoHunkCheck ==
    /\ rPc = "start"
    /\ \E content \in {resolveContent(rFile)[1]},
          parsedPatch \in {parsePatch(resolveContent(rFile)[1])} :
           /\ Trim(content) # <<>>
           /\ resolveContent(rFile)[2]
           /\ parsedPatch.hasContent = JsTrue
           /\ rIsPatchContent' = TRUE
           /\ rParsed' = Some(parsedPatch)
           /\ rOriginalLineCount' = parsedPatch.originalLineCount
           /\ EnterChunkLoop(reviewChunks(
                  extractReviewContent(parsedPatch, TRUE, ExtractMaxLines)))
    /\ UNCHANGED <<rFile, rChunkSize, rComments, rFrom, rAnswer>>

\* reviewFile up to its first await, on the patch path.
ReviewFilePatch ==
    /\ rPc = "start"
    /\ \E content \in {resolveContent(rFile)[1]},
          parsedPatch \in {parsePatch(resolveContent(rFile)[1])} :
           /\ Trim(content) # <<>>
           /\ resolveContent(rFile)[2]
           /\ parsedPatch.hasContent = JsTrue
           /\ Len(parsedPatch.hunks) # 0
           /\ rIsPatchContent' = TRUE
           /\ rParsed' = Some(parsedPatch)
           /\ rOriginalLineCount' = parsedPatch.originalLineCount
           /\ EnterChunkLoop(reviewChunks(
                  extractReviewContent(parsedPatch, TRUE, ExtractMaxLines)))
    /\ UNCHANGED <<rFile, rChunkSize, rComments, rFrom, rAnswer>>

\* reviewFile up to its first await, on the full-content path.
ReviewFileFull ==
    /\ rPc = "start"
    /\ \E content \in {resolveContent(rFile)[1]} :
           /\ Trim(content) # <<>>
           /\ ~resolveContent(rFile)[2]
           /\ rIsPatchContent' = FALSE
           /\ rParsed' = Null
           /\ rOriginalLineCount' = Len(SplitLines(content))
           /\ EnterChunkLoop(reviewChunks(content))
    /\ UNCHANGED <<rFile, rChunkSize, rComments, rFrom, rAnswer>>

\* The AI capability answers the call for chunk rI: the rest of the loop
\* body, then the call for the next chunk or the return.
AiReturn ==
    /\ rPc = "awaiting"
    /\ \E response \in AiResponses :
          LET chunk == rChunks[rI]
              chunkComments == reviewCodeChunk(response, chunk.content, rFile)
              adjustedComments ==
                  adjustCommentLineNumbers(chunkComments, chunk,
                                           rOriginalLineCount)
              newComments ==
                  IF rIsPatchContent
                  THEN mapComments(adjustedComments, Val(rParsed))
                  ELSE adjustedComments
          IN  /\ rComments' = rComments \o newComments
              /\ rFrom' = rFrom \o [k \in 1..Len(newComments) |-> rI]
              /\ rAnswer' = response
    /\ IF rI < Len(rChunks)
       THEN rI' = rI + 1 /\ rAiCalls' = Append(rAiCalls, rI + 1)
              /\ rPc' = "awaiting"
       ELSE rI' = rI /\ rAiCalls' = rAiCalls /\ rPc' = "done"
    /\ UNCHANGED <<rFile, rChunkSize, rIsPatchContent, rParsed,
                   rOriginalLineCount, rChunks>>

\* The AI capability throws: reviewFile logs and rethrows.
AiThrow ==
    /\ rPc = "awaiting"
    /\ rPc' = "rejected"
    /\ UNCHANGED <<rFile, rChunkSize, rIsPatchContent, rParsed,
                   rOriginalLineCount, rChunks, rI, rComments, rFrom,
                   rAiCalls, rAnswer>>

(***************************************************************************)
(* AIReviewService.validateCommentLineNumber as a pure function: the line  *)
(* number is null (which stands for null, undefined and the empty string,  *)
(* all falsy) or a number up to MaxValidateLine or around twice            *)
(* DefaultFileSize; file.size is absent, or a number up to                 *)
(* MaxValidateSize (which reaches past MinEstimatedLines).                 *)
(***************************************************************************)
MaxValidateLine == 103
MaxValidateSize == 51

ValidateLineNumbers ==
    {Null} \cup {Some(n) : n \in -1..MaxValidateLine}
      \cup {Some(2 * DefaultFileSize + d) : d \in {-1, 0, 1}}
ValidateFileSizes == {Null} \cup {Some(n) : n \in 0..MaxValidateSize}

\* service.validateCommentLineNumber(lineNumber, file)
ValidateCommentLineNumber ==
    /\ vPc = "input"
    /\ vResult' = validateCommentLineNumber(vLineNumber, vFile)
    /\ vPc' = "validated"
    /\ UNCHANGED <<vLineNumber, vFile>>

(***************************************************************************)
(* AIReviewService.reviewPullRequest: filtering, batches of at most three  *)
(* concurrent reviewFile calls, and the collection of their outcomes.      *)
(* A file is [excluded, size, chunks]: what shouldExcludeFile answers for  *)
(* its name, its size, and the number of chunks reviewFile makes of it.    *)
(* Files are referred to by their position in the input.                   *)
(***************************************************************************)
ConcurrencyLimit == 3

emptyResults ==
    [comments |-> <<>>, processedFiles |-> 0, skippedFiles |-> 0,
     errors |-> <<>>]

filterValidFiles(files, maxFileSize) ==
    SelectSeq([i \in 1..Len(files) |-> i],
              LAMBDA i :
                /\ ~files[i].excluded
                /\ ~(Truthy(maxFileSize) /\ files[i].size > Val(maxFileSize)))

\* All the files in one batch.
chunkArray_OneBatch(array, size) ==
    IF array = <<>> THEN <<>> ELSE <<array>>

chunkArray(array, size) ==
    [b \in 1..((Len(array) + size - 1) \div size) |->
        SubSeq(array, (b - 1) * size + 1, Min2(b * size, Len(array)))]

\* reviewFile(file) up to its first await: the call for the first chunk is
\* made, or the result is returned when there is nothing to review.
startFile(st, f, files) ==
    IF files[f].chunks = 0
    THEN [st EXCEPT !.status[f] = "fulfilled"]
    ELSE [st EXCEPT !.status[f] = "running", !.calls[f] = <<1>>,
                    !.inFlight[f] = 1]

\* chunk.map(file => this.reviewFile(file, prDetails))
RECURSIVE startBatch(_, _, _)
startBatch(st, batch, files) ==
    IF batch = <<>> THEN st
    ELSE startBatch(startFile(st, batch[1], files), Tail(batch), files)

\* The AI capability answers chunk inFlight[f] of file f with one comment:
\* reviewFile keeps it and calls for the next chunk or returns its result.
fileAiReturn(st, f, files) ==
    Let([st EXCEPT !.fileComments[f] = Append(@, <<f, st.inFlight[f]>>)],
        LAMBDA kept :
          IF st.inFlight[f] < files[f].chunks
          THEN [kept EXCEPT !.calls[f] = Append(@, st.inFlight[f] + 1),
                            !.inFlight[f] = st.inFlight[f] + 1]
          ELSE [kept EXCEPT !.status[f] = "fulfilled", !.inFlight[f] = 0])

\* The AI capability throws: reviewFile logs and rethrows.
fileAiThrow(st, f) ==
    [st EXCEPT !.status[f] = "rejected", !.inFlight[f] = 0]

\* A rejected file is counted as processed too.
processResult_CountsRejected(reviewResults, status, comments, message) ==
    IF status = "fulfilled"
    THEN [reviewResults EXCEPT !.comments = @ \o comments,
                               !.processedFiles = @ + 1]
    ELSE [reviewResults EXCEPT !.errors = Append(@, message),
                               !.processedFiles = @ + 1]

\* The body of the loop over the settled results of one batch.
processResult(reviewResults, status, comments, message) ==
    IF status = "fulfilled"
    THEN [reviewResults EXCEPT !.comments = @ \o comments,
                               !.processedFiles = @ + 1]
    ELSE [reviewResults EXCEPT !.errors = Append(@, message)]

RECURSIVE processResults(_, _, _)
processResults(reviewResults, batch, st) ==
    IF batch = <<>> THEN reviewResults
    ELSE processResults(
           processResult(reviewResults, st.status[batch[1]],
                         st.fileComments[batch[1]], <<"failed", batch[1]>>),
           Tail(batch), st)

\* The loop over the batches, resumed when a file of the current batch
\* settles: once Promise.allSettled has every outcome they are collected and
\* the next batch is started, or the results are returned.
RECURSIVE resumeBatches(_, _, _)
resumeBatches(st, batches, files) ==
    IF \E k \in 1..Len(batches[st.batch]) :
           st.status[batches[st.batch][k]] = "running"
    THEN st
    ELSE Let([st EXCEPT !.results =
                  processResults(st.results, batches[st.batch], st)],
             LAMBDA collected :
               IF st.batch = Len(batches)
               THEN [collected EXCEPT !.pc = "done"]
               ELSE resumeBatches(
                      startBatch([collected EXCEPT !.batch = @ + 1],
                                 batches[st.batch + 1], files),
                      batches, files))

MaxPrFiles == 4
PrFileSizes == {1, 9}
PrMaxFileSizes == {Null, Some(5)}
PrChunkCounts == {0, 1, 2}
PrFiles ==
    {[excluded |-> TRUE, size |-> 1, chunks |-> 1],
     [excluded |-> FALSE, size |-> 9, chunks |-> 1]}
      \cup {[excluded |-> FALSE, size |-> 1, chunks |-> n] : n \in PrChunkCounts}

qState ==
    [pc |-> qPc, batch |-> qBatch, status |-> qStatus, calls |-> qCalls,
     inFlight |-> qInFlight, fileComments |-> qFileComments,
     results |-> qResults]

qBatches == chunkArray(qValid, ConcurrencyLimit)

\* reviewPullRequest(files, prDetails) up to its first await on a batch
ReviewPullRequest ==
    /\ qPc = "start"
    /\ \E validFiles \in {filterValidFiles(qFiles, qMaxFileSize)} :
         /\ qValid' = validFiles
         /\ \E st \in {IF validFiles = <<>>
                       THEN [qState EXCEPT !.pc = "done"]
                       ELSE resumeBatches(
                              startBatch([qState EXCEPT !.pc = "reviewing",
                                                        !.batch = 1],
                                         chunkArray(validFiles,
                                                    ConcurrencyLimit)[1],
                                         qFiles),
                              chunkArray(validFiles, ConcurrencyLimit),
                              qFiles)} :
              /\ qPc' = st.pc /\ qBatch' = st.batch /\ qStatus' = st.status
              /\ qCalls' = st.calls /\ qInFlight' = st.inFlight
              /\ qFileComments' = st.fileComments /\ qResults' = st.results
    /\ UNCHANGED <<qFiles, qMaxFileSize>>

\* The AI call in flight for some file returns.
FileAiReturn ==
    /\ qPc = "reviewing"
    /\ \E f \in 1..Len(qFiles) :
         /\ qStatus[f] = "running"
         /\ \E st \in {resumeBatches(fileAiReturn(qState, f, qFiles),
                                     qBatches, qFiles)} :
              /\ qPc' = st.pc /\ qBatch' = st.batch /\ qStatus' = st.status
              /\ qCalls' = st.calls /\ qInFlight' = st.inFlight
              /\ qFileComments' = st.fileComments /\ qResults' = st.results
    /\ UNCHANGED <<qFiles, qMaxFileSize, qValid>>

\* The AI call in flight for some file throws.
FileAiThrow ==
    /\ qPc = "reviewing"
    /\ \E f \in 1..Len(qFiles) :
         /\ qStatus[f] = "running"
         /\ \E st \in {resumeBatches(fileAiThrow(qState, f), qBatches,
                                     qFiles)} :
              /\ qPc' = st.pc /\ qBatch' = st.batch /\ qStatus' = st.status
              /\ qCalls' = st.calls /\ qInFlight' = st.inFlight
              /\ qFileComments' = st.fileComments /\ qResults' = st.results
    /\ UNCHANGED <<qFiles, qMaxFileSize, qValid>>

(***************************************************************************)
(* ErrorHandler.withRetry. An error is [status, message], the message being *)
(* the set of the phrases isRetryableError looks for that it includes.     *)
(* hChecksRetryable tells the two versions of the class apart: the one     *)
(* that rethrows a non-retryable error at once, and the one that does not. *)
(***************************************************************************)
ReviewCodeRetries == 3
MaxRetries == 3

RetryableStatusCodes == {408, 429, 500, 502, 503, 504}
RetryableMessages == {"timeout", "rate limit", "server error", "network"}

isRetryableError(error) ==
    IF /\ error.status = Some(422)
       /\ "was submitted too quickly" \in error.message
    THEN TRUE
    ELSE IF /\ error.status = Some(422)
            /\ \/ "could not be resolved" \in error.message
               \/ "validation failed" \in error.message
    THEN FALSE
    ELSE IF /\ error.status = Some(403)
            /\ \/ "secondary rate limit" \in error.message
               \/ "temporarily blocked from content creation" \in error.message
    THEN FALSE
    ELSE IF Truthy(error.status) /\ Val(error.status) \in RetryableStatusCodes
    THEN TRUE
    ELSE \E keyword \in RetryableMessages : keyword \in error.message

RetryErrors ==
    {[status |-> Some(429), message |-> {"rate limit"}],
     [status |-> Some(422), message |-> {"was submitted too quickly"}],
     [status |-> Some(422), message |-> {"could not be resolved"}],
     [status |-> Some(403), message |-> {"secondary rate limit", "rate limit"}],
     [status |-> Null, message |-> {"timeout"}],
     [status |-> Some(401), message |-> {}]}

\* withRetry(fn, retries): the loop is entered and fn is invoked.
WithRetry ==
    /\ hPc = "start"
    /\ hAttempt' = 1
    /\ hInvocations' = hInvocations + 1
    /\ hPc' = "calling"
    /\ UNCHANGED <<hRetries, hChecksRetryable, hLastError>>

\* fn resolves: its value is returned.
FnResolves ==
    /\ hPc = "calling"
    /\ hPc' = "returned"
    /\ UNCHANGED <<hRetries, hChecksRetryable, hAttempt, hInvocations,
                   hLastError>>

\* fn rejects: the catch block, and the exit of the loop after the last
\* attempt.
FnRejects ==
    /\ hPc = "calling"
    /\ \E error \in RetryErrors :
         /\ hLastError' = Some(error)
         /\ IF hChecksRetryable /\ ~isRetryableError(error)
            THEN hPc' = "thrown" /\ hAttempt' = hAttempt
            ELSE IF hAttempt <= hRetries
            THEN hPc' = "delaying" /\ hAttempt' = hAttempt
            ELSE hPc' = "thrown" /\ hAttempt' = hAttempt + 1
    /\ UNCHANGED <<hRetries, hChecksRetryable, hInvocations>>

\* The delay before the next attempt is over: fn is invoked again.
DelayElapsed ==
    /\ hPc = "delaying"
    /\ hAttempt' = hAttempt + 1
    /\ IF hAttempt + 1 <= hRetries + 1
       THEN hPc' = "calling" /\ hInvocations' = hInvocations + 1
       ELSE hPc' = "thrown" /\ hInvocations' = hInvocations
    /\ UNCHANGED <<hRetries, hChecksRetryable, hLastError>>

(***************************************************************************)
(* WebhookHandler.postReviewComments and GitHubClient.createReviewComment. *)
(* A comment is [type, line]; comments are referred to by their position   *)
(* in the input. wInline records what the first loop did with each comment *)
(* and wGeneralTried the comments handed to createIssueComment, in order.  *)
(***************************************************************************)
MaxGithubLine == 100000
MaxPostComments == 3

\* What the GitHub API does with the review comment: the first call and, when
\* that fails for another reason than line resolution or pace, the retries.
ApiOutcomes ==
    {"created", "unresolved", "tooQuickly", "failsThenCreated",
     "failsThroughout"}

createReviewComment(comment, api) ==
    IF ~Truthy(comment.line) \/ Val(comment.line) <= 0 THEN "null"
    ELSE IF Val(comment.line) > MaxGithubLine THEN "null"
    ELSE CASE api = "created" -> "created"
           [] api = "unresolved" -> "null"
           [] api = "tooQuickly" -> "null"
           [] api = "failsThenCreated" -> "created"
           [] OTHER -> "throws"

isInline(comment) == comment.type = "inline" /\ Truthy(comment.line)

\* Every comment is handed to the general-comment loop.
fallsBack_Always(comment, result) == TRUE

\* Whether the first loop puts the comment on generalComments, result being
\* the outcome of createReviewComment for an inline comment.
fallsBack(comment, result) ==
    IF isInline(comment) THEN result \in {"null", "throws"} ELSE TRUE

PostComments ==
    {[type |-> t, line |-> l] :
        t \in {"inline", "general"},
        l \in {Null, Some(-1), Some(7), Some(MaxGithubLine + 1)}}

\* postReviewComments(owner, repo, pullNumber, comments) up to the first loop
PostReviewComments ==
    /\ wPc = "start"
    /\ wPc' = IF Len(wComments) = 0 THEN "returned" ELSE "inline"
    /\ UNCHANGED <<wComments, wI, wG, wPostedCount, wGeneralComments,
                   wInline, wGeneralTried, wStopped>>

\* One iteration of the first loop, on comment wI + 1.
PostInline ==
    /\ wPc = "inline"
    /\ \E api \in ApiOutcomes :
       \E result \in {IF isInline(wComments[wI + 1])
                      THEN createReviewComment(wComments[wI + 1], api)
                      ELSE "general"} :
       \E general \in {IF fallsBack(wComments[wI + 1], result)
                       THEN Append(wGeneralComments, wI + 1)
                       ELSE wGeneralComments} :
         /\ wInline' = Append(wInline, result)
         /\ wPostedCount' =
              IF isInline(wComments[wI + 1]) /\ result = "created"
              THEN wPostedCount + 1 ELSE wPostedCount
         /\ wGeneralComments' = general
         /\ wI' = wI + 1
         /\ wPc' = IF wI + 1 < Len(wComments) THEN "inline"
                   ELSE IF general = <<>> THEN "returned" ELSE "general"
    /\ UNCHANGED <<wComments, wG, wGeneralTried, wStopped>>

\* One iteration of the second loop, on generalComments[wG].
PostGeneral ==
    /\ wPc = "general"
    /\ \E outcome \in {"created", "error", "secondaryRateLimit"} :
         /\ wGeneralTried' = Append(wGeneralTried, wGeneralComments[wG + 1])
         /\ wPostedCount' =
              IF outcome = "created" THEN wPostedCount + 1 ELSE wPostedCount
         /\ wStopped' = (outcome = "secondaryRateLimit")
         /\ wG' = wG + 1
         /\ wPc' = IF outcome = "secondaryRateLimit"
                      \/ wG + 1 >= Len(wGeneralComments)
                   THEN "returned" ELSE "general"
    /\ UNCHANGED <<wComments, wI, wGeneralComments, wInline>>

(***************************************************************************)
(* The specifications: one per unit, the state of the other units idle.    *)
(***************************************************************************)
ChunkerInit ==
    /\ cPc = "input"
    /\ cContent \in Strings(Alphabet, MaxContentLen)
    /\ cMaxChunkSize \in 0..MaxChunkOpt
    /\ cOverlap \in 0..MaxOverlapOpt
    /\ cChunks = <<>>
    /\ aPc = "idle" /\ aComments = <<>> /\ aChunk = mkChunk(<<>>, 1, 1, 0, Null)
    /\ aTotal = 0 /\ aResult = <<>>
    /\ pPc = "idle" /\ pPatch = <<>> /\ pParsed = Null /\ pLine = Null
    /\ pMapped = Null /\ pFileType = "original" /\ pValid = FALSE
    /\ rPc = "idle" /\ rFile = mkFile("modified", <<>>, <<>>, Null)
    /\ rChunkSize = 0 /\ rIsPatchContent = FALSE /\ rParsed = Null
    /\ rOriginalLineCount = 0 /\ rChunks = <<>> /\ rI = 0
    /\ rComments = <<>> /\ rFrom = <<>> /\ rAiCalls = <<>> /\ rAnswer = <<>>
    /\ vPc = "idle" /\ vLineNumber = Null /\ vFile = mkFile("modified", <<>>, <<>>, Null)
    /\ vResult = Null
    /\ qPc = "idle" /\ qFiles = <<>> /\ qMaxFileSize = Null /\ qValid = <<>>
    /\ qBatch = 0 /\ qStatus = <<>> /\ qCalls = <<>> /\ qInFlight = <<>>
    /\ qFileComments = <<>> /\ qResults = emptyResults
    /\ hPc = "idle" /\ hRetries = 0 /\ hChecksRetryable = FALSE
    /\ hAttempt = 0 /\ hInvocations = 0 /\ hLastError = Null
    /\ wPc = "idle" /\ wComments = <<>> /\ wI = 0 /\ wG = 0
    /\ wPostedCount = 0 /\ wGeneralComments = <<>> /\ wInline = <<>>
    /\ wGeneralTried = <<>> /\ wStopped = FALSE

AdjustInit ==
    /\ aPc = "input"
    /\ aComments \in UNION {[1..k -> AIComments] : k \in 0..MaxComments}
    /\ aChunk \in {mkChunk(<<"a">>, s, s, 0, Some(1)) : s \in 1..MaxStartLine}
    /\ aTotal \in 0..MaxTotal
    /\ aResult = <<>>
    /\ cPc = "idle" /\ cContent = <<>> /\ cMaxChunkSize = 0 /\ cOverlap = 0
    /\ cChunks = <<>>
    /\ pPc = "idle" /\ pPatch = <<>> /\ pParsed = Null /\ pLine = Null
    /\ pMapped = Null /\ pFileType = "original" /\ pValid = FALSE
    /\ rPc = "idle" /\ rFile = mkFile("modified", <<>>, <<>>, Null)
    /\ rChunkSize = 0 /\ rIsPatchContent = FALSE /\ rParsed = Null
    /\ rOriginalLineCount = 0 /\ rChunks = <<>> /\ rI = 0
    /\ rComments = <<>> /\ rFrom = <<>> /\ rAiCalls = <<>> /\ rAnswer = <<>>
    /\ vPc = "idle" /\ vLineNumber = Null /\ vFile = mkFile("modified", <<>>, <<>>, Null)
    /\ vResult = Null
    /\ qPc = "idle" /\ qFiles = <<>> /\ qMaxFileSize = Null /\ qValid = <<>>
    /\ qBatch = 0 /\ qStatus = <<>> /\ qCalls = <<>> /\ qInFlight = <<>>
    /\ qFileComments = <<>> /\ qResults = emptyResults
    /\ hPc = "idle" /\ hRetries = 0 /\ hChecksRetryable = FALSE
    /\ hAttempt = 0 /\ hInvocations = 0 /\ hLastError = Null
    /\ wPc = "idle" /\ wComments = <<>> /\ wI = 0 /\ wG = 0
    /\ wPostedCount = 0 /\ wGeneralComments = <<>> /\ wInline = <<>>
    /\ wGeneralTried = <<>> /\ wStopped = FALSE

PatchInit ==
    /\ pPc = "input"
    /\ pPatch \in PatchTexts
    /\ pParsed = Null
    /\ pLine = Null
    /\ pMapped = Null
    /\ pFileType = "original"
    /\ pValid = FALSE
    /\ cPc = "idle" /\ cContent = <<>> /\ cMaxChunkSize = 0 /\ cOverlap = 0
    /\ cChunks = <<>>
    /\ aPc = "idle" /\ aComments = <<>> /\ aChunk = mkChunk(<<>>, 1, 1, 0, Null)
    /\ aTotal = 0 /\ aResult = <<>>
    /\ rPc = "idle" /\ rFile = mkFile("modified", <<>>, <<>>, Null)
    /\ rChunkSize = 0 /\ rIsPatchContent = FALSE /\ rParsed = Null
    /\ rOriginalLineCount = 0 /\ rChunks = <<>> /\ rI = 0
    /\ rComments = <<>> /\ rFrom = <<>> /\ rAiCalls = <<>> /\ rAnswer = <<>>
    /\ vPc = "idle" /\ vLineNumber = Null /\ vFile = mkFile("modified", <<>>, <<>>, Null)
    /\ vResult = Null
    /\ qPc = "idle" /\ qFiles = <<>> /\ qMaxFileSize = Null /\ qValid = <<>>
    /\ qBatch = 0 /\ qStatus = <<>> /\ qCalls = <<>> /\ qInFlight = <<>>
    /\ qFileComments = <<>> /\ qResults = emptyResults
    /\ hPc = "idle" /\ hRetries = 0 /\ hChecksRetryable = FALSE
    /\ hAttempt = 0 /\ hInvocations = 0 /\ hLastError = Null
    /\ wPc = "idle" /\ wComments = <<>> /\ wI = 0 /\ wG = 0
    /\ wPostedCount = 0 /\ wGeneralComments = <<>> /\ wInline = <<>>
    /\ wGeneralTried = <<>> /\ wStopped = FALSE

ReviewInit ==
    /\ rPc = "start"
    /\ \E input \in ReviewInputs : rFile = input[1] /\ rChunkSize = input[2]
    /\ rIsPatchContent = FALSE
    /\ rParsed = Null
    /\ rOriginalLineCount = 0
    /\ rChunks = <<>>
    /\ rI = 0
    /\ rComments = <<>>
    /\ rFrom = <<>>
    /\ rAiCalls = <<>>
    /\ rAnswer = <<>>
    /\ cPc = "idle" /\ cContent = <<>> /\ cMaxChunkSize = 0 /\ cOverlap = 0
    /\ cChunks = <<>>
    /\ aPc = "idle" /\ aComments = <<>> /\ aChunk = mkChunk(<<>>, 1, 1, 0, Null)
    /\ aTotal = 0 /\ aResult = <<>>
    /\ pPc = "idle" /\ pPatch = <<>> /\ pParsed = Null /\ pLine = Null
    /\ pMapped = Null /\ pFileType = "original" /\ pValid = FALSE
    /\ vPc = "idle" /\ vLineNumber = Null /\ vFile = mkFile("modified", <<>>, <<>>, Null)
    /\ vResult = Null
    /\ qPc = "idle" /\ qFiles = <<>> /\ qMaxFileSize = Null /\ qValid = <<>>
    /\ qBatch = 0 /\ qStatus = <<>> /\ qCalls = <<>> /\ qInFlight = <<>>
    /\ qFileComments = <<>> /\ qResults = emptyResults
    /\ hPc = "idle" /\ hRetries = 0 /\ hChecksRetryable = FALSE
    /\ hAttempt = 0 /\ hInvocations = 0 /\ hLastError = Null
    /\ wPc = "idle" /\ wComments = <<>> /\ wI = 0 /\ wG = 0
    /\ wPostedCount = 0 /\ wGeneralComments = <<>> /\ wInline = <<>>
    /\ wGeneralTried = <<>> /\ wStopped = FALSE

ValidateInit ==
    /\ vPc = "input"
    /\ vLineNumber \in ValidateLineNumbers
    /\ vFile \in {mkFile("modified", <<>>, <<>>, size) : size \in ValidateFileSizes}
    /\ vResult = Null
    /\ cPc = "idle" /\ cContent = <<>> /\ cMaxChunkSize = 0 /\ cOverlap = 0
    /\ cChunks = <<>>
    /\ aPc = "idle" /\ aComments = <<>> /\ aChunk = mkChunk(<<>>, 1, 1, 0, Null)
    /\ aTotal = 0 /\ aResult = <<>>
    /\ pPc = "idle" /\ pPatch = <<>> /\ pParsed = Null /\ pLine = Null
    /\ pMapped = Null /\ pFileType = "original" /\ pValid = FALSE
    /\ rPc = "idle" /\ rFile = mkFile("modified", <<>>, <<>>, Null)
    /\ rChunkSize = 0 /\ rIsPatchContent = FALSE /\ rParsed = Null
    /\ rOriginalLineCount = 0 /\ rChunks = <<>> /\ rI = 0
    /\ rComments = <<>> /\ rFrom = <<>> /\ rAiCalls = <<>> /\ rAnswer = <<>>
    /\ qPc = "idle" /\ qFiles = <<>> /\ qMaxFileSize = Null /\ qValid = <<>>
    /\ qBatch = 0 /\ qStatus = <<>> /\ qCalls = <<>> /\ qInFlight = <<>>
    /\ qFileComments = <<>> /\ qResults = emptyResults
    /\ hPc = "idle" /\ hRetries = 0 /\ hChecksRetryable = FALSE
    /\ hAttempt = 0 /\ hInvocations = 0 /\ hLastError = Null
    /\ wPc = "idle" /\ wComments = <<>> /\ wI = 0 /\ wG = 0
    /\ wPostedCount = 0 /\ wGeneralComments = <<>> /\ wInline = <<>>
    /\ wGeneralTried = <<>> /\ wStopped = FALSE

PullRequestInit ==
    /\ qPc = "start"
    /\ qFiles \in UNION {[1..k -> PrFiles] : k \in 0..MaxPrFiles}
    /\ qMaxFileSize \in PrMaxFileSizes
    /\ qValid = <<>>
    /\ qBatch = 0
    /\ qStatus = [f \in 1..Len(qFiles) |-> "waiting"]
    /\ qCalls = [f \in 1..Len(qFiles) |-> <<>>]
    /\ qInFlight = [f \in 1..Len(qFiles) |-> 0]
    /\ qFileComments = [f \in 1..Len(qFiles) |-> <<>>]
    /\ qResults = emptyResults
    /\ cPc = "idle" /\ cContent = <<>> /\ cMaxChunkSize = 0 /\ cOverlap = 0
    /\ cChunks = <<>>
    /\ aPc = "idle" /\ aComments = <<>> /\ aChunk = mkChunk(<<>>, 1, 1, 0, Null)
    /\ aTotal = 0 /\ aResult = <<>>
    /\ pPc = "idle" /\ pPatch = <<>> /\ pParsed = Null /\ pLine = Null
    /\ pMapped = Null /\ pFileType = "original" /\ pValid = FALSE
    /\ rPc = "idle" /\ rFile = mkFile("modified", <<>>, <<>>, Null)
    /\ rChunkSize = 0 /\ rIsPatchContent = FALSE /\ rParsed = Null
    /\ rOriginalLineCount = 0 /\ rChunks = <<>> /\ rI = 0
    /\ rComments = <<>> /\ rFrom = <<>> /\ rAiCalls = <<>> /\ rAnswer = <<>>
    /\ vPc = "idle" /\ vLineNumber = Null /\ vFile = mkFile("modified", <<>>, <<>>, Null)
    /\ vResult = Null
    /\ hPc = "idle" /\ hRetries = 0 /\ hChecksRetryable = FALSE
    /\ hAttempt = 0 /\ hInvocations = 0 /\ hLastError = Null
    /\ wPc = "idle" /\ wComments = <<>> /\ wI = 0 /\ wG = 0
    /\ wPostedCount = 0 /\ wGeneralComments = <<>> /\ wInline = <<>>
    /\ wGeneralTried = <<>> /\ wStopped = FALSE

RetryInit ==
    /\ hPc = "start"
    /\ hRetries \in 0..MaxRetries
    /\ hChecksRetryable \in BOOLEAN
    /\ hAttempt = 0
    /\ hInvocations = 0
    /\ hLastError = Null
    /\ cPc = "idle" /\ cContent = <<>> /\ cMaxChunkSize = 0 /\ cOverlap = 0
    /\ cChunks = <<>>
    /\ aPc = "idle" /\ aComments = <<>> /\ aChunk = mkChunk(<<>>, 1, 1, 0, Null)
    /\ aTotal = 0 /\ aResult = <<>>
    /\ pPc = "idle" /\ pPatch = <<>> /\ pParsed = Null /\ pLine = Null
    /\ pMapped = Null /\ pFileType = "original" /\ pValid = FALSE
    /\ rPc = "idle" /\ rFile = mkFile("modified", <<>>, <<>>, Null)
    /\ rChunkSize = 0 /\ rIsPatchContent = FALSE /\ rParsed = Null
    /\ rOriginalLineCount = 0 /\ rChunks = <<>> /\ rI = 0
    /\ rComments = <<>> /\ rFrom = <<>> /\ rAiCalls = <<>> /\ rAnswer = <<>>
    /\ vPc = "idle" /\ vLineNumber = Null /\ vFile = mkFile("modified", <<>>, <<>>, Null)
    /\ vResult = Null
    /\ qPc = "idle" /\ qFiles = <<>> /\ qMaxFileSize = Null /\ qValid = <<>>
    /\ qBatch = 0 /\ qStatus = <<>> /\ qCalls = <<>> /\ qInFlight = <<>>
    /\ qFileComments = <<>> /\ qResults = emptyResults
    /\ wPc = "idle" /\ wComments = <<>> /\ wI = 0 /\ wG = 0
    /\ wPostedCount = 0 /\ wGeneralComments = <<>> /\ wInline = <<>>
    /\ wGeneralTried = <<>> /\ wStopped = FALSE

WebhookInit ==
    /\ wPc = "start"
    /\ wComments \in UNION {[1..k -> PostComments] : k \in 0..MaxPostComments}
    /\ wI = 0
    /\ wG = 0
    /\ wPostedCount = 0
    /\ wGeneralComments = <<>>
    /\ wInline = <<>>
    /\ wGeneralTried = <<>>
    /\ wStopped = FALSE
    /\ cPc = "idle" /\ cContent = <<>> /\ cMaxChunkSize = 0 /\ cOverlap = 0
    /\ cChunks = <<>>
    /\ aPc = "idle" /\ aComments = <<>> /\ aChunk = mkChunk(<<>>, 1, 1, 0, Null)
    /\ aTotal = 0 /\ aResult = <<>>
    /\ pPc = "idle" /\ pPatch = <<>> /\ pParsed = Null /\ pLine = Null
    /\ pMapped = Null /\ pFileType = "original" /\ pValid = FALSE
    /\ rPc = "idle" /\ rFile = mkFile("modified", <<>>, <<>>, Null)
    /\ rChunkSize = 0 /\ rIsPatchContent = FALSE /\ rParsed = Null
    /\ rOriginalLineCount = 0 /\ rChunks = <<>> /\ rI = 0
    /\ rComments = <<>> /\ rFrom = <<>> /\ rAiCalls = <<>> /\ rAnswer = <<>>
    /\ vPc = "idle" /\ vLineNumber = Null /\ vFile = mkFile("modified", <<>>, <<>>, Null)
    /\ vResult = Null
    /\ qPc = "idle" /\ qFiles = <<>> /\ qMaxFileSize = Null /\ qValid = <<>>
    /\ qBatch = 0 /\ qStatus = <<>> /\ qCalls = <<>> /\ qInFlight = <<>>
    /\ qFileComments = <<>> /\ qResults = emptyResults
    /\ hPc = "idle" /\ hRetries = 0 /\ hChecksRetryable = FALSE
    /\ hAttempt = 0 /\ hInvocations = 0 /\ hLastError = Null

SpecChunker ==
    /\ ChunkerInit
    /\ [][ChunkFile
            /\ UNCHANGED <<adjustVars, patchVars, reviewVars, validateVars,
                           pullRequestVars, retryVars, webhookVars>>]_vars

SpecAdjust ==
    /\ AdjustInit
    /\ [][AdjustCommentLineNumbers
            /\ UNCHANGED <<chunkerVars, patchVars, reviewVars, validateVars,
                           pullRequestVars, retryVars, webhookVars>>]_vars

PatchNext ==
    \/ ParsePatch
         /\ UNCHANGED <<chunkerVars, adjustVars, reviewVars, validateVars,
                        pullRequestVars, retryVars, webhookVars>>
    \/ MapPatchLine
         /\ UNCHANGED <<chunkerVars, adjustVars, reviewVars, validateVars,
                        pullRequestVars, retryVars, webhookVars>>
    \/ IsValidLineNumber
         /\ UNCHANGED <<chunkerVars, adjustVars, reviewVars, validateVars,
                        pullRequestVars, retryVars, webhookVars>>

SpecPatch ==
    /\ PatchInit
    /\ [][PatchNext]_vars

ReviewNext ==
    \/ ReviewFileSkip
         /\ UNCHANGED <<chunkerVars, adjustVars, patchVars, validateVars,
                        pullRequestVars, retryVars, webhookVars>>
    \/ ReviewFilePatch
         /\ UNCHANGED <<chunkerVars, adjustVars, patchVars, validateVars,
                        pullRequestVars, retryVars, webhookVars>>
    \/ ReviewFileFull
         /\ UNCHANGED <<chunkerVars, adjustVars, patchVars, validateVars,
                        pullRequestVars, retryVars, webhookVars>>
    \/ AiReturn
         /\ UNCHANGED <<chunkerVars, adjustVars, patchVars, validateVars,
                        pullRequestVars, retryVars, webhookVars>>
    \/ AiThrow
         /\ UNCHANGED <<chunkerVars, adjustVars, patchVars, validateVars,
                        pullRequestVars, retryVars, webhookVars>>

SpecReview ==
    /\ ReviewInit
    /\ [][ReviewNext]_vars

SpecValidate ==
    /\ ValidateInit
    /\ [][ValidateCommentLineNumber
            /\ UNCHANGED <<chunkerVars, adjustVars, patchVars, reviewVars,
                           pullRequestVars, retryVars, webhookVars>>]_vars

PullRequestNext ==
    \/ ReviewPullRequest
         /\ UNCHANGED <<chunkerVars, adjustVars, patchVars, reviewVars,
                        validateVars, retryVars, webhookVars>>
    \/ FileAiReturn
         /\ UNCHANGED <<chunkerVars, adjustVars, patchVars, reviewVars,
                        validateVars, retryVars, webhookVars>>
    \/ FileAiThrow
         /\ UNCHANGED <<chunkerVars, adjustVars, patchVars, reviewVars,
                        validateVars, retryVars, webhookVars>>

SpecPullRequest ==
    /\ PullRequestInit
    /\ [][PullRequestNext]_vars

RetryNext ==
    \/ WithRetry
         /\ UNCHANGED <<chunkerVars, adjustVars, patchVars, reviewVars,
                        validateVars, pullRequestVars, webhookVars>>
    \/ FnResolves
         /\ UNCHANGED <<chunkerVars, adjustVars, patchVars, reviewVars,
                        validateVars, pullRequestVars, webhookVars>>
    \/ FnRejects
         /\ UNCHANGED <<chunkerVars, adjustVars, patchVars, reviewVars,
                        validateVars, pullRequestVars, webhookVars>>
    \/ DelayElapsed
         /\ UNCHANGED <<chunkerVars, adjustVars, patchVars, reviewVars,
                        validateVars, pullRequestVars, webhookVars>>

SpecRetry ==
    /\ RetryInit
    /\ [][RetryNext]_vars

WebhookNext ==
    \/ PostReviewComments
         /\ UNCHANGED <<chunkerVars, adjustVars, patchVars, reviewVars,
                        validateVars, pullRequestVars, retryVars>>
    \/ PostInline
         /\ UNCHANGED <<chunkerVars, adjustVars, patchVars, reviewVars,
                        validateVars, pullRequestVars, retryVars>>
    \/ PostGeneral
         /\ UNCHANGED <<chunkerVars, adjustVars, patchVars, reviewVars,
                        validateVars, pullRequestVars, retryVars>>

SpecWebhook ==
    /\ WebhookInit
    /\ [][WebhookNext]_vars

(***************************************************************************)
(* Claims about FileChunker.chunkFile (SpecChunker)                        *)
(***************************************************************************)
\* The lines of the chunk's content are the input's lines startLine..endLine.
ChunkTextMatchesRange(chunk) ==
    LET cl == SplitLines(chunk.content)
    IN  /\ Len(cl) = chunk.endLine - chunk.startLine + 1
        /\ \A j \in 1..Len(cl) :
              /\ chunk.startLine + j - 1 \in 1..Len(cLines)
              /\ cl[j] = cLines[chunk.startLine + j - 1]

\* C3: every chunk returned by chunkFile has exactly endLine - startLine + 1
\* lines, and its j-th line is the input's line startLine + j - 1.
C3_ChunkLinesAreRange ==
    cPc = "chunked" =>
        \A p \in 1..Len(cChunks) : ChunkTextMatchesRange(cChunks[p])

\* C5: when chunkFile returns chunks, their line ranges cover exactly
\* [1, totalLines]: the first starts at 1, each later one starts no later than
\* the previous endLine + 1, and the last ends at totalLines.
C5_RangesCoverContent ==
    (cPc = "chunked" /\ Len(cChunks) > 0) =>
        /\ cChunks[1].startLine = 1
        /\ \A p \in 2..Len(cChunks) :
              cChunks[p].startLine <= cChunks[p - 1].endLine + 1
        /\ cChunks[Len(cChunks)].endLine = Len(cLines)

\* C6 as stated: every chunk's content is at most maxChunkSize characters.
C6_ChunkWithinMax ==
    cPc = "chunked" =>
        \A p \in 1..Len(cChunks) : Len(cChunks[p].content) <= cEffMax

\* C6 amended: a chunk's content is at most as long as the largest of
\* maxChunkSize, the longest input line and overlap - 1; so it is within
\* maxChunkSize when no line is longer than maxChunkSize and overlap is at
\* most maxChunkSize + 1.
C6_ChunkWithinMaxLineOrOverlap ==
    cPc = "chunked" =>
        \A p \in 1..Len(cChunks) :
            Len(cChunks[p].content)
              <= Max2(cEffMax, Max2(LongestLine(cLines), cEffOverlap - 1))

\* Several chunks, no line longer than maxChunkSize, overlap within
\* maxChunkSize + 1, and a chunk that is exactly maxChunkSize long.
C6_Witness ==
    /\ cPc = "chunked"
    /\ Len(cChunks) >= 2
    /\ LongestLine(cLines) <= cEffMax
    /\ cEffOverlap <= cEffMax + 1
    /\ \E p \in 1..Len(cChunks) : Len(cChunks[p].content) = cEffMax
    /\ \E p \in 2..Len(cChunks) : cChunks[p].startLine > 1

(***************************************************************************)
(* Claims about FileChunker.adjustCommentLineNumbers (SpecAdjust)          *)
(***************************************************************************)
ClampLine(x, total) == Max2(1, Min2(x, total))

\* C7: a comment with a non-null line_number gets
\* chunk.startLine + line_number - 1 clamped into [1, totalOriginalLines],
\* its other fields unchanged; a comment with a null line_number is returned
\* unchanged; length and order are kept. Stated for totalOriginalLines >= 1,
\* where the interval is not empty.
C7_AdjustNonNull ==
    (aPc = "adjusted" /\ aTotal >= 1) =>
        /\ Len(aResult) = Len(aComments)
        /\ \A k \in 1..Len(aComments) :
              IF Field(aComments[k], "line_number") # Null
              THEN aResult[k] =
                     WithField(aComments[k], "line_number",
                       Some(ClampLine(aChunk.startLine
                                        + Val(aComments[k].line_number) - 1,
                                      aTotal)))
              ELSE aResult[k] = aComments[k]

(***************************************************************************)
(* Claims about PatchParser (SpecPatch)                                    *)
(***************************************************************************)
pHunks == Val(pParsed).hunks

\* The hunks in which local line k is within [1, entries.length] and the
\* entry has a non-null originalLineNumber.
HunksWithOriginal(k) ==
    {h \in 1..Len(pHunks) :
        /\ k \in 1..Len(pHunks[h].lines)
        /\ pHunks[h].lines[k].originalLineNumber # Null}

FirstOf(S) == CHOOSE h \in S : \A g \in S : h <= g

\* C8: null when there is no hunk, when localLine is null or <= 0
\* or exceeds every hunk's entry count; otherwise the originalLineNumber of
\* entries[localLine - 1] of the first hunk in which localLine is in range
\* and that entry has a non-null originalLineNumber, null if there is none.
C8_MapFirstHunkNonNull ==
    pPc = "mapped" =>
        IF pLine = Null \/ HunksWithOriginal(NumOf(pLine)) = {}
        THEN pMapped = Null
        ELSE pMapped =
               pHunks[FirstOf(HunksWithOriginal(Val(pLine)))]
                 .lines[Val(pLine)].originalLineNumber

\* The number of context and removed entries of a hunk.
OriginalEntryCount(hunk) ==
    Cardinality({k \in 1..Len(hunk.lines) :
                    hunk.lines[k].type \in {"context", "removed"}})

\* Every entry of the hunk is a context, added or removed line.
WellFormedHunk(hunk) ==
    \A k \in 1..Len(hunk.lines) :
        hunk.lines[k].type \in {"context", "added", "removed"}

\* C9: for a single-hunk patch, local line k maps to oldStartLine + k - 1 for
\* every k from 1 to the number of context and removed entries, and to null
\* when the hunk has no such entry. Stated for a hunk of context, added and
\* removed lines whose old range starts at 1 or later.
C9_SingleHunkKthOriginalLine ==
    (/\ pPc = "mapped" /\ Len(pHunks) = 1 /\ pLine # Null
     /\ WellFormedHunk(pHunks[1]) /\ pHunks[1].oldStartLine >= 1) =>
        /\ Val(pLine) \in 1..OriginalEntryCount(pHunks[1])
              => pMapped = Some(pHunks[1].oldStartLine + Val(pLine) - 1)
        /\ OriginalEntryCount(pHunks[1]) = 0 => pMapped = Null

\* The lines of the patch text and, of those after the first hunk header
\* that are no hunk header, the ones that start with prefix.
pTextLines == SplitLines(pPatch)
IsHeader(k) == hunkHeaderPattern(pTextLines[k]) # Null
Headers == {k \in 1..Len(pTextLines) : IsHeader(k)}
BodyOf(h) ==
    {k \in (h + 1)..Len(pTextLines) :
        \A g \in Headers : g <= h \/ g > k}
BodyLinesWith(h, prefixes) ==
    {k \in BodyOf(h) : \E q \in prefixes : StartsWith(pTextLines[k], <<q>>)}

\* A valid unified diff: it starts with a hunk header, every body line is a
\* removed, added or context line or a no-newline marker, and every header
\* counts its body's old and new lines.
HeaderCount(digits) == IF digits = <<>> THEN 1 ELSE parseInt(digits)
ValidUnifiedDiff ==
    /\ pTextLines # <<>> /\ Headers # {} /\ IsHeader(1)
    /\ \A h \in Headers :
          LET m == Val(hunkHeaderPattern(pTextLines[h]))
          IN  /\ BodyOf(h) = BodyLinesWith(h, {"+", "-", " ", "\\"})
              /\ Cardinality(BodyLinesWith(h, {"-", " "}))
                   = HeaderCount(m.oldCount)
              /\ Cardinality(BodyLinesWith(h, {"+", " "}))
                   = HeaderCount(m.newCount)

RECURSIVE SumField(_, _)
SumField(hunks, f) ==
    IF hunks = <<>> THEN 0 ELSE hunks[1][f] + SumField(Tail(hunks), f)

\* C10: for a valid unified diff the hunks' addedLines sum to the number of
\* '+'-prefixed body lines and their removedLines to the number of
\* '-'-prefixed body lines, lines whose content starts with '++' or '--'
\* included.
C10_CountsMatchPrefixedLines ==
    (pPc = "parsed" /\ ValidUnifiedDiff) =>
        /\ SumField(pHunks, "addedLines")
             = Cardinality(UNION {BodyLinesWith(h, {"+"}) : h \in Headers})
        /\ SumField(pHunks, "removedLines")
             = Cardinality(UNION {BodyLinesWith(h, {"-"}) : h \in Headers})

(***************************************************************************)
(* Claims about AIReviewService.reviewFile (SpecReview)                    *)
(***************************************************************************)
\* The diff entries behind the lines of the reviewable text, in order.
RECURSIVE EntriesOf(_)
EntriesOf(hunks) ==
    IF hunks = <<>> THEN <<>>
    ELSE SelectSeq(hunks[1].lines, LAMBDA e : reviewLineOf(e) # Null)
           \o EntriesOf(Tail(hunks))

ReviewedEntries == EntriesOf(Val(rParsed).hunks)

\* The line the AI capability reported for the k-th returned comment, and
\* the chunk it reported it for.
AiLineOf(k) == rComments[k].originalLineNumber
ChunkOf(k) == rChunks[rFrom[k]]

\* C1: on the patch path every returned comment carries as its line the
\* originalLineNumber of the diff entry behind the line of the reviewable
\* text the AI pointed at. Stated for a reviewable text that is one chunk,
\* where the AI's line is the line of the reviewable text.
C1_PatchCommentsCarryOriginalLine ==
    (rPc = "done" /\ rIsPatchContent /\ Len(rChunks) = 1) =>
        \A k \in 1..Len(rComments) :
            (/\ AiLineOf(k) \in 1..Len(ReviewedEntries)
             /\ ReviewedEntries[AiLineOf(k)].originalLineNumber # Null)
              => Some(rComments[k].line)
                   = ReviewedEntries[AiLineOf(k)].originalLineNumber

\* C2: on the full-content path the comment made from an AI comment with
\* chunk-local line l of chunk c has line
\* min(max(c.startLine + l - 1, 1), total line count of the content).
C2_FullPathLinesShifted ==
    (rPc = "done" /\ ~rIsPatchContent) =>
        \A k \in 1..Len(rComments) :
            rComments[k].line
              = Min2(Max2(ChunkOf(k).startLine + AiLineOf(k) - 1, 1),
                     rOriginalLineCount)

\* C4: on the patch path no returned comment has a line that
\* mapPatchLineToOriginalFile maps to null: the line is the chunk-adjusted
\* line of the AI's comment.
C4_UnmappedCommentsDropped ==
    (rPc = "done" /\ rIsPatchContent) =>
        \A k \in 1..Len(rComments) :
            mapPatchLineToOriginalFile(
                Some(ClampLine(ChunkOf(k).startLine + AiLineOf(k) - 1,
                               rOriginalLineCount)),
                Val(rParsed)) # Null

(***************************************************************************)
(* Further claims about PatchParser (SpecPatch)                            *)
(***************************************************************************)
\* The number of entries before the k-th whose type is one of types.
EntriesBefore(hunk, k, types) ==
    Cardinality({j \in 1..(k - 1) : hunk.lines[j].type \in types})

\* The tracks an entry is numbered on, by its type.
NumberedAsItsType(e) ==
    /\ e.originalLineNumber # Null <=> e.type \in {"context", "removed"}
    /\ e.modifiedLineNumber # Null <=> e.type \in {"context", "added"}

\* C11: in every hunk of parsePatch a context entry has both line numbers,
\* an added entry only a modifiedLineNumber, a removed entry only an
\* originalLineNumber, an 'other' entry neither; the originalLineNumber of
\* the context and removed entries are oldStartLine, oldStartLine + 1, ...
\* in entry order, and the modifiedLineNumber of the context and added
\* entries are newStartLine, newStartLine + 1, ....
C11_EntriesNumberedConsecutively ==
    pParsed # Null =>
        \A h \in 1..Len(pHunks) :
            \A k \in 1..Len(pHunks[h].lines) :
                LET e == pHunks[h].lines[k]
                IN  /\ NumberedAsItsType(e)
                    /\ e.originalLineNumber # Null =>
                          Val(e.originalLineNumber)
                            = pHunks[h].oldStartLine
                                + EntriesBefore(pHunks[h], k,
                                                {"context", "removed"})
                    /\ e.modifiedLineNumber # Null =>
                          Val(e.modifiedLineNumber)
                            = pHunks[h].newStartLine
                                + EntriesBefore(pHunks[h], k,
                                                {"context", "added"})

\* A hunk from line 5 with a removed, an added and a context entry: the
\* context entry is line 6 of both files.
C11_Witness ==
    /\ pPc = "parsed"
    /\ Len(pHunks) = 1
    /\ pHunks[1].oldStartLine = 5
    /\ [k \in 1..Len(pHunks[1].lines) |-> pHunks[1].lines[k].type]
         = <<"removed", "added", "context">>
    /\ pHunks[1].lines[3].originalLineNumber = Some(6)
    /\ pHunks[1].lines[3].modifiedLineNumber = Some(6)
    /\ pHunks[1].lines[2].originalLineNumber = Null

\* C12: parsePatch of the empty string or of a whitespace-only string
\* returns no hunk, hasContent equal to the boolean false, and both line
\* counts 0.
C12_BlankPatchHasNoContent ==
    (pParsed # Null /\ Trim(pPatch) = <<>>) =>
        /\ Val(pParsed).hunks = <<>>
        /\ Val(pParsed).hasContent = JsFalse
        /\ Val(pParsed).originalLineCount = 0
        /\ Val(pParsed).modifiedLineCount = 0

\* isValidLineNumber was asked about the parsed patch's own originalLineCount,
\* the patch having at least one hunk.
AskedAboutOriginalLineCount ==
    /\ pPc = "validated"
    /\ Len(pHunks) >= 1
    /\ pFileType = "original"
    /\ pLine = Some(Val(pParsed).originalLineCount)

\* C13 as stated: for every parsed diff with at least one hunk,
\* isValidLineNumber(parsed.originalLineCount, parsed, 'original') is true.
C13_OriginalLineCountIsValid ==
    AskedAboutOriginalLineCount => pValid

\* C13 amended: it is true when originalLineCount is at least 1 and false
\* when originalLineCount is 0 (no hunk's old range ends at line 1 or later,
\* as for the old range 0,0 of a newly added file).
C13_PositiveOriginalLineCountIsValid ==
    AskedAboutOriginalLineCount =>
        (pValid <=> Val(pParsed).originalLineCount >= 1)

\* A hunk whose old range is 5,3: line 7, the originalLineCount, is valid.
C13_Witness ==
    /\ AskedAboutOriginalLineCount
    /\ pHunks[1].oldStartLine = 5 /\ pHunks[1].oldLineCount = 3
    /\ pLine = Some(7)
    /\ pValid

(***************************************************************************)
(* Further claims about FileChunker.chunkFile (SpecChunker)                *)
(***************************************************************************)
\* C14: when content.length <= maxChunkSize, chunkFile returns exactly one
\* chunk: the whole content, startLine 1, endLine the number of lines of the
\* content, chunkIndex 0, totalChunks 1.
C14_SmallContentIsOneChunk ==
    (cPc = "chunked" /\ Len(cContent) <= cEffMax) =>
        cChunks = << [content |-> cContent, startLine |-> 1,
                      endLine |-> Len(cLines), chunkIndex |-> 0,
                      totalChunks |-> Some(1)] >>

\* Content of several lines that is exactly maxChunkSize long.
C14_Witness ==
    /\ cPc = "chunked"
    /\ Len(cContent) = cEffMax
    /\ Len(cLines) >= 2
    /\ Len(cChunks) = 1
    /\ cChunks[1].endLine = Len(cLines)

\* C15: whenever content.length > maxChunkSize, chunkFile returns more than
\* one chunk. Stated for content none of whose lines is longer than
\* maxChunkSize, which a chunker that seals chunks between lines can split.
C15_LargeContentIsSeveralChunks ==
    (/\ cPc = "chunked" /\ Len(cContent) > cEffMax
     /\ LongestLine(cLines) <= cEffMax) =>
        Len(cChunks) > 1

\* C16: the chunk at (0-based) position p of the array chunkFile returns has
\* chunkIndex p, and every chunk's totalChunks is the length of the array.
C16_IndexIsPositionTotalIsLength ==
    cPc = "chunked" =>
        \A p \in 1..Len(cChunks) :
            /\ cChunks[p].chunkIndex = p - 1
            /\ cChunks[p].totalChunks = Some(Len(cChunks))

\* Three chunks or more, made by the loop.
C16_Witness ==
    /\ cPc = "chunked"
    /\ Len(cChunks) >= 3
    /\ cChunks[3].chunkIndex = 2
    /\ cChunks[1].totalChunks = Some(Len(cChunks))

(***************************************************************************)
(* Further claims about AIReviewService.reviewFile (SpecReview)            *)
(***************************************************************************)
\* What reviewFile has done once past its content resolution: it took the
\* patch path (parsing file.patch), it took the full path (chunking
\* file.content and calling the AI capability), or it skipped the file
\* (returning no comment, the AI capability never called).
TookPatchPath ==
    rIsPatchContent /\ rParsed = Some(parsePatch(rFile.patch))
TookFullPath ==
    /\ ~rIsPatchContent /\ rParsed = Null
    /\ rOriginalLineCount = Len(SplitLines(rFile.content))
    /\ rChunks # <<>> /\ rChunks[1].startLine = 1
    /\ rAiCalls # <<>>
SkippedFile ==
    /\ rPc = "done" /\ rComments = <<>> /\ rAiCalls = <<>> /\ rChunks = <<>>
    /\ ~rIsPatchContent

\* The resolution order, usableContent telling whether file.content counts.
ResolvedInOrder(usableContent) ==
    rPc # "start" =>
        IF rFile.status = "removed" THEN SkippedFile
        ELSE IF Trim(rFile.patch) # <<>> THEN TookPatchPath
        ELSE IF usableContent THEN TookFullPath
        ELSE SkippedFile

\* C17 as stated: a patch that is non-empty after trimming selects the patch
\* path; otherwise a non-empty file.content selects the full path; otherwise,
\* and for status 'removed', the file is skipped with no comment, no throw
\* and no call of the AI capability.
C17_ResolvesNonEmptyContent ==
    ResolvedInOrder(rFile.content # <<>>)

\* C17 amended: file.content selects the full path when it is non-empty
\* after trimming; whitespace-only content is skipped like empty content.
C17_ResolvesNonBlankContent ==
    ResolvedInOrder(Trim(rFile.content) # <<>>)

\* A file whose patch is a blank and whose content is text: the full path was
\* taken and a comment returned.
C17_Witness ==
    /\ rPc = "done"
    /\ rFile.status = "modified"
    /\ rFile.patch = <<" ">>
    /\ Trim(rFile.content) # <<>>
    /\ TookFullPath
    /\ rComments # <<>>

\* No line of the text is a hunk header.
NoHunkHeader(text) ==
    \A k \in 1..Len(SplitLines(text)) :
        hunkHeaderPattern(SplitLines(text)[k]) = Null

\* parsePatch finds no hunk in the file's patch, and reviewFile has returned
\* no comment without calling the AI capability.
HeaderlessPatchSkipped ==
    /\ parsePatch(rFile.patch).hunks = <<>>
    /\ rPc = "done" /\ rComments = <<>> /\ rAiCalls = <<>>

LineNumberLimit ==
    2 * Max2(IF vFile.size = Null \/ vFile.size = Some(0)
             THEN 1000 ELSE Val(vFile.size), 50)

\* C19: validateCommentLineNumber returns lineNumber itself exactly when it
\* is a positive number not greater than
\* 2 * max(file.size or 1000 when size is absent/zero, 50), and null in every
\* other case.
C19_ValidatedWithinLimit ==
    vPc = "validated" =>
        IF /\ vLineNumber # Null
           /\ Val(vLineNumber) > 0
           /\ Val(vLineNumber) <= LineNumberLimit
        THEN vResult = vLineNumber
        ELSE vResult = Null

\* A file of size 50 and line 100, which is exactly the limit: accepted.
C19_Witness ==
    /\ vPc = "validated"
    /\ vFile.size = Some(50)
    /\ vLineNumber = Some(100)
    /\ LineNumberLimit = 100
    /\ vResult = Some(100)

\* C20: no comment of reviewFile's result comes from an AI comment whose
\* chunk-local line_number exceeds the number of lines of the chunk text it
\* was produced for.
C20_NoCommentBeyondChunkLines ==
    \A k \in 1..Len(rComments) :
        AiLineOf(k) <= Len(SplitLines(ChunkOf(k).content))

\* The AI capability answered the only chunk, of at most two lines, with a
\* comment on line 3 and one on line 1: only the second is in the result.
C20_Witness ==
    /\ rPc = "done"
    /\ Len(rChunks) = 1
    /\ Len(SplitLines(rChunks[1].content)) <= 2
    /\ rAnswer = <<AiComment(Some(3), "warning"), AiComment(Some(1), "error")>>
    /\ Len(rComments) = 1
    /\ AiLineOf(1) = 1
    /\ rComments[1].severity = "error"


(***************************************************************************)
(* Further claims about FileChunker.chunkFile (SpecChunker)                *)
(***************************************************************************)
\* C27: every chunk returned by chunkFile has
\* 1 <= startLine <= endLine <= number of lines of the input, and each later
\* chunk starts no later than the line after the previous chunk's endLine.
C27_ChunkRangesOrdered ==
    cPc = "chunked" =>
        /\ \A p \in 1..Len(cChunks) :
              /\ 1 <= cChunks[p].startLine
              /\ cChunks[p].startLine <= cChunks[p].endLine
              /\ cChunks[p].endLine <= Len(cLines)
        /\ \A p \in 2..Len(cChunks) :
              cChunks[p].startLine <= cChunks[p - 1].endLine + 1

\* Three chunks, the second seeded with overlap lines (it starts before the
\* first one's end) and the last one ending at the last input line.
C27_Witness ==
    /\ cPc = "chunked"
    /\ Len(cChunks) >= 3
    /\ cChunks[2].startLine <= cChunks[1].endLine
    /\ cChunks[Len(cChunks)].endLine = Len(cLines)

\* C30: for content with at least one non-empty line, chunkFile returns at
\* least one chunk and every input line is a line of some chunk's content.
C30_EveryLineInSomeChunk ==
    (cPc = "chunked" /\ \E k \in 1..Len(cLines) : cLines[k] # <<>>) =>
        /\ cChunks # <<>>
        /\ \A k \in 1..Len(cLines) :
              \E p \in 1..Len(cChunks) :
                  \E j \in 1..Len(SplitLines(cChunks[p].content)) :
                      SplitLines(cChunks[p].content)[j] = cLines[k]


\* The total size, line length + 1 each, of the n lines that end at line i.
TailSize(lines, i, n) ==
    SumField([j \in 1..n |-> [size |-> Len(lines[i - n + j]) + 1]], "size")

\* The length of the longest run of lines ending at line i whose total size
\* is within overlap.
LongestTail(lines, i, overlap) ==
    CHOOSE n \in 0..i :
        /\ TailSize(lines, i, n) <= overlap
        /\ n = i \/ TailSize(lines, i, n + 1) > overlap

\* C24: the chunk that follows a chunk sealed at line i starts with the
\* longest tail of lines 1..i whose total size (line length + 1 each) is
\* within overlap, in input order, and its startLine is
\* max(1, i - number of those lines + 1).
C24_OverlapIsLongestTail ==
    cPc = "chunked" =>
        \A p \in 2..Len(cChunks) :
            LET i == cChunks[p - 1].endLine
                n == LongestTail(cLines, i, cEffOverlap)
                cl == SplitLines(cChunks[p].content)
            IN  /\ cChunks[p].startLine = Max2(1, i - n + 1)
                /\ Len(cl) >= n
                /\ \A j \in 1..n : cl[j] = cLines[i - n + j]

(***************************************************************************)
(* Claims about blank context lines and review text (SpecPatch)            *)
(***************************************************************************)
\* The k-th smallest element of a set of numbers.
KthOf(S, k) == CHOOSE t \in S : Cardinality({u \in S : u < t}) = k - 1

\* The body lines of the hunk under header h that parsePatch turns into
\* entries.
EntryLines(h) ==
    {t \in BodyOf(h) :
        ~IsMetadataLine(pTextLines[t]) /\ Trim(pTextLines[t]) # <<>>}

\* Every body line of the hunk under header h starts with a space, a plus or
\* a minus and none is a file header line.
WellFormedBody(h) ==
    \A t \in BodyOf(h) :
        /\ \E q \in {" ", "+", "-"} : StartsWith(pTextLines[t], <<q>>)
        /\ ~IsMetadataLine(pTextLines[t])

\* C25: in a well-formed hunk every body line that starts with a space, the
\* single-space line included, advances both counters: an entry's
\* originalLineNumber is oldStartLine plus the number of space- and
\* minus-prefixed body lines before it in the diff text, and its
\* modifiedLineNumber is newStartLine plus the number of space- and
\* plus-prefixed body lines before it.
C25_BlankContextAdvancesCounters ==
    pParsed # Null =>
        \A g \in 1..Len(pHunks) :
            LET h == KthOf(Headers, g)
            IN  WellFormedBody(h) =>
                  \A k \in 1..Len(pHunks[g].lines) :
                      LET e == pHunks[g].lines[k]
                          t == KthOf(EntryLines(h), k)
                      IN  /\ e.originalLineNumber # Null =>
                                Val(e.originalLineNumber)
                                  = pHunks[g].oldStartLine
                                      + Cardinality({u \in BodyLinesWith(h, {" ", "-"}) : u < t})
                          /\ e.modifiedLineNumber # Null =>
                                Val(e.modifiedLineNumber)
                                  = pHunks[g].newStartLine
                                      + Cardinality({u \in BodyLinesWith(h, {" ", "+"}) : u < t})


\* The lines of extractReviewContent(parsed, {includeContext: true}) and the
\* diff entries that produced them.
pReviewLines == extractReviewLines(Val(pParsed), TRUE, ExtractMaxLines)
pReviewEntries == EntriesOf(pHunks)

\* C26: for every k from 1 to the number of lines of the reviewable text,
\* mapPatchLineToOriginalFile(k, parsed) is the originalLineNumber of the diff
\* entry that produced line k of that text, null for an added line.
C26_MapFollowsReviewText ==
    (pPc = "mapped" /\ pLine # Null /\ Val(pLine) \in 1..Len(pReviewLines)) =>
        pMapped = pReviewEntries[Val(pLine)].originalLineNumber


(***************************************************************************)
(* Claims about AIReviewService.reviewPullRequest (SpecPullRequest)        *)
(***************************************************************************)
qFulfilled == SelectSeq(qValid, LAMBDA f : qStatus[f] = "fulfilled")
qRejected == SelectSeq(qValid, LAMBDA f : qStatus[f] = "rejected")
qRunning == {f \in 1..Len(qFiles) : qStatus[f] = "running"}

\* The comments of the files fs, in order.
RECURSIVE CommentsOf(_)
CommentsOf(fs) ==
    IF fs = <<>> THEN <<>>
    ELSE qFileComments[fs[1]] \o CommentsOf(Tail(fs))

\* C21: a rejected reviewFile aborts nothing. While reviewPullRequest has
\* not returned, a call of some file is still awaited; when it returns,
\* every valid file is fulfilled or rejected, the comments are those of the
\* fulfilled files, processedFiles is their number and errors has one
\* message per rejected file.
C21_RejectedFileAbortsNothing ==
    /\ qPc = "reviewing" => qRunning # {}
    /\ qPc = "done" =>
          /\ \A k \in 1..Len(qValid) :
                qStatus[qValid[k]] \in {"fulfilled", "rejected"}
          /\ qResults.comments = CommentsOf(qFulfilled)
          /\ qResults.processedFiles = Len(qFulfilled)
          /\ qResults.errors
                = [k \in 1..Len(qRejected) |-> <<"failed", qRejected[k]>>]

\* The first file was rejected on its second chunk, and a file of the
\* second batch is fulfilled with its comments in the result.
C21_Witness ==
    /\ qPc = "done"
    /\ Len(qValid) >= 4
    /\ qStatus[qValid[1]] = "rejected"
    /\ qFileComments[qValid[1]] # <<>>
    /\ qStatus[qValid[4]] = "fulfilled"
    /\ qFileComments[qValid[4]] # <<>>
    /\ qResults.processedFiles = 3

\* C22: the result's skippedFiles is the number of input files that were
\* filtered out, so processedFiles + skippedFiles + errors.length is the
\* number of input files.
C22_SkippedFilesCounted ==
    qPc = "done" =>
        /\ qResults.skippedFiles = Len(qFiles) - Len(qValid)
        /\ qResults.processedFiles + qResults.skippedFiles
              + Len(qResults.errors) = Len(qFiles)

\* The batch a valid file is reviewed in.
BatchOf(f) ==
    CHOOSE b \in 1..Len(qBatches) :
        \E k \in 1..Len(qBatches[b]) : qBatches[b][k] = f

\* C28: within a file the AI capability is called for chunks 1, 2, ... in
\* this order, each call made only when the previous one has completed;
\* at most 3 reviewFile calls are in flight, and a file is started only when
\* every file of the earlier batches has settled.
C28_ChunksInOrderFilesInBatches ==
    /\ \A f \in 1..Len(qFiles) :
          /\ qCalls[f] = [k \in 1..Len(qCalls[f]) |-> k]
          /\ qStatus[f] = "running" =>
                /\ qInFlight[f] = Len(qCalls[f])
                /\ Len(qFileComments[f]) = Len(qCalls[f]) - 1
          /\ qStatus[f] = "fulfilled" =>
                Len(qFileComments[f]) = Len(qCalls[f])
    /\ Cardinality(qRunning) <= 3
    /\ \A k, l \in 1..Len(qValid) :
          (/\ BatchOf(qValid[k]) < BatchOf(qValid[l])
           /\ qStatus[qValid[l]] # "waiting")
            => qStatus[qValid[k]] \in {"fulfilled", "rejected"}

\* The fourth valid file, alone in the second batch, is on its second chunk
\* after the three files of the first batch have settled.
C28_Witness ==
    /\ qPc = "reviewing"
    /\ Len(qValid) >= 4
    /\ qBatch = 2
    /\ qStatus[qValid[4]] = "running"
    /\ qCalls[qValid[4]] = <<1, 2>>
    /\ \E k \in 1..3 : qCalls[qValid[k]] = <<1, 2>>

(***************************************************************************)
(* Claims about ErrorHandler.withRetry (SpecRetry)                         *)
(***************************************************************************)
\* C23: with retries = 3 an operation that keeps failing with a retryable
\* error is invoked at most 3 times in all, and an operation that succeeded
\* on some attempt has been invoked exactly that many times.
C23_AtMostThreeInvocations ==
    /\ (/\ hRetries = ReviewCodeRetries
        /\ hLastError # Null => isRetryableError(Val(hLastError)))
          => hInvocations <= 3
    /\ hPc = "returned" => hInvocations = hAttempt

(***************************************************************************)
(* Claims about WebhookHandler.postReviewComments (SpecWebhook)            *)
(***************************************************************************)
\* How many times comment i was handed to createIssueComment.
TriedCount(i) ==
    Cardinality({k \in 1..Len(wGeneralTried) : wGeneralTried[k] = i})

\* C29: an inline comment whose placement returned null or threw is tried as
\* a general comment at most once, and exactly once when postReviewComments
\* has returned without a secondary-rate-limit stop; a comment posted inline
\* is never tried as a general comment; the count never exceeds the number
\* of input comments.
C29_FailedInlineFallsBackOnce ==
    /\ \A i \in 1..Len(wInline) :
          /\ wInline[i] \in {"null", "throws"} =>
                /\ TriedCount(i) <= 1
                /\ (wPc = "returned" /\ ~wStopped) => TriedCount(i) = 1
          /\ wInline[i] = "created" => TriedCount(i) = 0
    /\ wPostedCount <= Len(wComments)

\* Three inline comments, one posted, one that came back null and one that
\* threw, the last two posted as general comments: three posted in all.
C29_Witness ==
    /\ wPc = "returned" /\ ~wStopped
    /\ wInline = <<"created", "null", "throws">>
    /\ wGeneralTried = <<2, 3>>
    /\ wPostedCount = 3

====
